---- MODULE Spec2Model ----
(***************************************************************************)
(* Model of the ImageTrend form-mapping extraction (MAIN-world script in   *)
(* src/background/api-client.ts:280-940) and of FormHashGenerator          *)
(* (src/services/hash-generator.ts).                                       *)
(*                                                                         *)
(* The page owns the SourceGraph (window.imagetrend / knockout view        *)
(* model).  An EXTRACT_MAPPING message runs extractFormMapping, which is   *)
(* synchronous: one action models the whole handler and posts either       *)
(* IMAGETREND_DATA or IMAGETREND_ERROR.  Control nodes and expression      *)
(* groups live in heaps addressed by reference, so that a node can be its  *)
(* own descendant.                                                         *)
(***************************************************************************)
EXTENDS Integers, Sequences, FiniteSets, TLC

VARIABLES
    formComposer,   \* win.imagetrend.formComposer: agencyLayouts, formFieldDictionary, agencyResources
    vmObservable,   \* composer.vmObservable(): Resources, FormActions
    logicEngine,    \* win.imagetrend.logicEngine: indexedValidationActions, indexedVisibilityActions
    controlHeap,    \* control objects of the layout tree, by reference
    groupHeap,      \* expression-group objects, by reference
    clock,          \* Date source of formData.timestamp
    posted,         \* messages posted to the content script, oldest first
    probe,          \* per run: the graph that was read and what each stage returned
    hashes,         \* digests computed for posted payloads: [run, hash, quick]
    session,        \* chrome.storage.session: the keys of SecureTokenStorage
    dateNow,        \* Date.now() of the background, in milliseconds
    oktaAuth,       \* OktaAuth: pendingState, pendingVerifier; logins started, callbacks run
    calls,          \* calls of async entry points of the background, oldest first
    idp,            \* the token endpoint: token sets issued, refresh tokens it accepts
    extractionHistory,  \* extractionHistory of the background
    localStorage,   \* chrome.storage.local: lastExtractionTime and the company cache entry
    contentScript,  \* content script: isImageTrendReady, extractedData, waiting listeners
    popup,          \* popup state
    mainWorld,      \* the page: its URL, EXTRACT_MAPPING requests not yet answered, payloads posted
    runtimeMessages \* runtime messages on their way to the background

extractionVars == <<formComposer, vmObservable, logicEngine, controlHeap, groupHeap,
                    clock, posted, probe, hashes>>

backgroundVars == <<session, dateNow, oktaAuth, calls, idp, extractionHistory,
                    localStorage, contentScript, popup, mainWorld, runtimeMessages>>

vars == <<formComposer, vmObservable, logicEngine, controlHeap, groupHeap,
          clock, posted, probe, hashes,
          session, dateNow, oktaAuth, calls, idp, extractionHistory,
          localStorage, contentScript, popup, mainWorld, runtimeMessages>>

graphVars == <<formComposer, vmObservable, logicEngine, controlHeap, groupHeap>>

----------------------------------------------------------------------------
(* Bounds of the model                                                     *)

MaxRuns == 2          \* extraction requests per behaviour
MaxElements == 2      \* elements of one resource group
NumNodes == 2         \* control objects in the heap
NumGroups == 2        \* expression-group objects in the heap
StackLimit == 12      \* call frames the engine grants a recursion before RangeError
MaxCalls == 2         \* calls of background entry points per behaviour
MaxLogins == 2        \* logins started per behaviour
MaxExtractions == 1   \* extractions the popup requests per behaviour
MaxRetries == 2       \* calls of withRetry per behaviour
MaxAttempts == 3      \* largest maxAttempts given to withRetry
MaxInjections == 2    \* injections of the MAIN-world script into one page

(* Program constants                                                       *)

ExpiryBuffer == 300000    \* getAccessToken: expiry - 300000 (hash-generator.ts:140)
CACHE_DURATION == 300000  \* CompanyCache: 5 * 60 * 1000 (part_005:1)
SESSION_TIMEOUT == 1800000 \* CompanySessionManager: 30 * 60 * 1000 (auth.ts:215)
CheckMax == 5             \* checkForImageTrend: checkCount.max (api-client.ts:309)
HistoryLimit == 10        \* extractionHistory.length > 10 (part_002:596)
DepthCeiling == 10    \* api-client.ts:565  depth > 10

----------------------------------------------------------------------------
(* JavaScript values                                                       *)

UNDEFINED == "undefined"
NULL == "null"

\* Truthiness of a string-or-absent value
Truthy(v) == v \notin {UNDEFINED, NULL, ""}

\* a || b on string-or-absent values
Or(a, b) == IF Truthy(a) THEN a ELSE b

\* obj.prop, undefined when the object has no such property
Get(obj, prop) == IF prop \in DOMAIN obj THEN obj[prop] ELSE UNDEFINED

Range(s) == {s[i] : i \in DOMAIN s}

Max(a, b) == IF a >= b THEN a ELSE b

\* The strings of the model, spelled out so that toLowerCase and includes
\* work on characters.
Chars(s) ==
    CASE s = "TextBox"     -> <<"T","e","x","t","B","o","x">>
      [] s = "DataGrid"    -> <<"D","a","t","a","G","r","i","d">>
      [] s = "gridview"    -> <<"g","r","i","d","v","i","e","w">>
      [] s = "MultiSelect" -> <<"M","u","l","t","i","S","e","l","e","c","t">>
      [] s = "Repeater"    -> <<"R","e","p","e","a","t","e","r">>
      [] s = "/x/y"        -> <<"/","x","/","y">>
      [] s = "/x[]/y"      -> <<"/","x","[","]","/","y">>
      [] s = "/z"          -> <<"/","z">>
      [] s = "grid"        -> <<"g","r","i","d">>
      [] s = "[]"          -> <<"[","]">>
      [] OTHER             -> <<>>

LowerChar(c) ==
    CASE c = "T" -> "t" [] c = "B" -> "b" [] c = "D" -> "d" [] c = "G" -> "g"
      [] c = "M" -> "m" [] c = "S" -> "s" [] c = "R" -> "r"
      [] OTHER -> c

\* String.prototype.toLowerCase, on characters
toLowerCase(cs) == [i \in DOMAIN cs |-> LowerChar(cs[i])]

\* String.prototype.includes, on characters
includes(cs, sub) ==
    \E i \in 1..(Len(cs) - Len(sub) + 1) : SubSeq(cs, i, i + Len(sub) - 1) = sub

\* Collation order of the identifiers of the model (String.prototype.localeCompare)
Collation == <<"", "F1", "F2", "c1", "c2">>

Rank(s) == CHOOSE i \in DOMAIN Collation : Collation[i] = s

localeCompare(a, b) ==
    IF Rank(a) < Rank(b) THEN -1 ELSE IF Rank(a) > Rank(b) THEN 1 ELSE 0

\* Number to string, as JSON.stringify prints a count
NumStr(n) == IF n = 0 THEN "0" ELSE <<"1","2","3","4","5","6","7","8","9">>[n]

\* The value of a numeric property: a number, null, or undefined (also the
\* value read from an object that has no such property)
NumberValue(n) == [type |-> "number", value |-> n]
NullValue == [type |-> "null"]
UndefinedValue == [type |-> "undefined"]

\* ToNumber, as the subtraction a - b applies it; codes are never undefined
\* where the program subtracts
ToNumber(v) == IF v.type = "number" THEN v.value ELSE 0

\* Set.prototype.add on a Set kept in insertion order
SetAdd(set, v) == IF \E i \in DOMAIN set : set[i] = v THEN set ELSE Append(set, v)

----------------------------------------------------------------------------
(* extractFields (api-client.ts:452-681)                                   *)
(* fieldMap is a JavaScript object: a list of descriptors in insertion     *)
(* order, at most one per id.  Elements are optional lists: <<>> when the  *)
(* property is absent, <<list>> when present.                              *)

IndexOfId(fieldMap, id) ==
    IF \E i \in DOMAIN fieldMap : fieldMap[i].id = id
    THEN CHOOSE i \in DOMAIN fieldMap : fieldMap[i].id = id
    ELSE 0

\* A map that keeps an earlier descriptor of the same id next to the new one
PutField_KeepsEarlier(fieldMap, id, descriptor) == Append(fieldMap, descriptor)

\* fieldMap[id] = descriptor
PutField(fieldMap, id, descriptor) ==
    IF IndexOfId(fieldMap, id) = 0
    THEN Append(fieldMap, descriptor)
    ELSE [fieldMap EXCEPT ![IndexOfId(fieldMap, id)] = descriptor]

\* Elements.map(elem => ({id, value, text, order}))  (490-495, 504-509)
PossibleValue(elem) ==
    [id |-> elem.Id, value |-> elem.Value,
     text |-> Or(elem.OriginalDisplayMember, elem.Value),
     order |-> elem.SortOrder]

PossibleValues(elements) == [i \in DOMAIN elements |-> PossibleValue(elements[i])]

\* resources[key], as an optional value
TopLevel(resources, key) ==
    SelectSeq(resources.entries, LAMBDA e : e.key = key)

\* resources[topKey][key], as an optional value
Nested(value, key) ==
    SelectSeq(value.children, LAMBDA e : e.key = key)

\* A lookup without the scan of the nested containers (497-514 left out)
LookupResource_DirectOnly(resources, resourceId) ==
    IF ~(Truthy(resourceId) /\ resources.present) THEN <<>>
    ELSE IF TopLevel(resources, resourceId) # <<>>
    THEN LET direct == TopLevel(resources, resourceId)[1].value IN
         IF direct.Elements # <<>>
         THEN <<[resourceId |-> resourceId,
                 possibleValues |-> PossibleValues(direct.Elements[1])]>>
         ELSE <<[resourceId |-> resourceId]>>
    ELSE <<>>

\* The resource lookup of a selectable dictionary field (483-515): the
\* properties it sets on the descriptor.
LookupResource(resources, resourceId) ==
    IF ~(Truthy(resourceId) /\ resources.present) THEN <<>>
    ELSE IF TopLevel(resources, resourceId) # <<>>
    THEN LET direct == TopLevel(resources, resourceId)[1].value IN
         IF direct.Elements # <<>>
         THEN <<[resourceId |-> resourceId,
                 possibleValues |-> PossibleValues(direct.Elements[1])]>>
         ELSE <<[resourceId |-> resourceId]>>
    ELSE LET hits == SelectSeq(resources.entries,
                               LAMBDA e : Nested(e.value, resourceId) # <<>>) IN
         IF hits = <<>> THEN <<>>
         ELSE LET found == Nested(hits[1].value, resourceId)[1].value IN
              IF found.Elements # <<>>
              THEN <<[resourceId |-> resourceId,
                      possibleValues |-> PossibleValues(found.Elements[1])]>>
              ELSE <<[resourceId |-> resourceId]>>

\* One dictionary entry (459-519)
DictionaryDescriptor(field, resources) ==
    LET fieldId == Or(field.bpID, field.bindingPathEntryId)
        base == [id |-> fieldId, key |-> field.key, label |-> field.key,
                 type |-> Or(field.type, field.controlType),
                 resourceId |-> NULL, possibleValues |-> <<>>,
                 bindingPath |-> NULL]
        hit == IF field.type \in {"SingleSelect", "MultiSelect"}
               THEN LookupResource(resources, fieldId)
               ELSE <<>>
    IN IF hit = <<>> THEN base ELSE hit[1] @@ base

RECURSIVE DictionaryPhase(_, _, _)
DictionaryPhase(fieldMap, dictionary, resources) ==
    IF dictionary = <<>> THEN fieldMap
    ELSE LET d == DictionaryDescriptor(Head(dictionary), resources) IN
         DictionaryPhase(PutField(fieldMap, d.id, d), Tail(dictionary), resources)

\* A classification that compares the control type without toLowerCase
isCollectionField_CaseSensitive(control) ==
    \/ (Truthy(control.ControlType)
          /\ includes(Chars(control.ControlType), Chars("grid")))
    \/ control.ControlType = "MultiSelect"
    \/ (Truthy(control.BindingPath) /\ includes(Chars(control.BindingPath), Chars("[]")))
    \/ control.IsRepeating
    \/ control.IsCollection
    \/ (control.MaxCardinality # 0 /\ control.MaxCardinality > 1)

\* isCollectionField (578-590, 623-635)
isCollectionField(control) ==
    \/ (Truthy(control.ControlType)
          /\ includes(toLowerCase(Chars(control.ControlType)), Chars("grid")))
    \/ control.ControlType = "MultiSelect"
    \/ (Truthy(control.BindingPath) /\ includes(Chars(control.BindingPath), Chars("[]")))
    \/ control.IsRepeating
    \/ control.IsCollection
    \/ (control.MaxCardinality # 0 /\ control.MaxCardinality > 1)

\* constraints of a control (592-604, 637-649)
Constraints(control) ==
    [minOccurs |-> IF control.IsRequired THEN 1 ELSE 0,
     maxOccurs |-> IF isCollectionField(control) THEN -1 ELSE 1,
     nillable |-> Truthy(control.FormManagerNoDataNodeID)]

Metadata(control) ==
    [isRepeating |-> control.IsRepeating, isCollection |-> control.IsCollection]

\* An update that also takes the label from the layout control
UpdateDescriptor_OverwritesLabel(existing, control) ==
    [bindingPath |-> control.BindingPath,
     label |-> control.Label,
     controlType |-> control.ControlType,
     required |-> control.Required,
     resourceGroupId |-> control.ResourceGroupID,
     constraints |-> Constraints(control),
     metadata |-> Metadata(control)] @@ existing

\* The id exists in fieldMap (572-610)
UpdateDescriptor(existing, control) ==
    [bindingPath |-> control.BindingPath,
     controlType |-> control.ControlType,
     required |-> control.Required,
     resourceGroupId |-> control.ResourceGroupID,
     constraints |-> Constraints(control),
     metadata |-> Metadata(control)] @@ existing

\* The id is not in fieldMap (612-657)
NewDescriptor(control) ==
    [id |-> control.BindingPathEntryID,
     bindingPath |-> control.BindingPath,
     type |-> control.ControlType,
     label |-> control.Label,
     required |-> control.Required,
     resourceGroupId |-> control.ResourceGroupID,
     constraints |-> Constraints(control),
     metadata |-> Metadata(control)]

\* Body of controls.forEach up to the recursion (568-659); acc carries the
\* fieldMap, the deepest level at which a control was visited and the
\* references of the visited controls in visiting order.
VisitControl(acc, ref, control, depth) ==
    LET fieldId == control.BindingPathEntryID
        fm == acc.fieldMap
        i == IndexOfId(fm, fieldId)
        fm2 == IF ~Truthy(fieldId) THEN fm
               ELSE IF i # 0 THEN [fm EXCEPT ![i] = UpdateDescriptor(fm[i], control)]
               ELSE Append(fm, NewDescriptor(control))
    IN [fieldMap |-> fm2, deepest |-> Max(acc.deepest, depth),
        order |-> Append(acc.order, ref)]

RECURSIVE traverseControls(_, _, _, _)
RECURSIVE forEachControl(_, _, _, _, _)

\* A traversal whose guard lets one more level through
traverseControls_OneLevelMore(heap, acc, controls, depth) ==
    IF depth > DepthCeiling + 1 THEN acc
    ELSE forEachControl(heap, acc, controls, 1, depth)

\* traverseControls (564-666)
traverseControls(heap, acc, controls, depth) ==
    IF depth > DepthCeiling THEN acc
    ELSE forEachControl(heap, acc, controls, 1, depth)

forEachControl(heap, acc, controls, i, depth) ==
    IF i > Len(controls) THEN acc
    ELSE LET control == heap[controls[i]]
             visited == VisitControl(acc, controls[i], control, depth)
             below == traverseControls(heap, visited, control.Controls, depth + 1)
         IN forEachControl(heap, below, controls, i + 1, depth)

RECURSIVE forEachPanel(_, _, _)
forEachPanel(heap, acc, panels) ==
    IF panels = <<>> THEN acc
    ELSE forEachPanel(heap, traverseControls(heap, acc, Head(panels).Controls, 0),
                      Tail(panels))

RECURSIVE forEachForm(_, _, _)
forEachForm(heap, acc, forms) ==
    IF forms = <<>> THEN acc
    ELSE LET form == Head(forms)
             afterPanels == forEachPanel(heap, acc, form.Panels)
             afterControls == traverseControls(heap, afterPanels, form.Controls, 0)
         IN forEachForm(heap, afterControls, Tail(forms))

\* traverseForms (531-561)
traverseForms(heap, acc, layout) ==
    forEachPanel(heap, forEachForm(heap, acc, layout.Forms), layout.Panels)

RECURSIVE forEachLayout(_, _, _)
forEachLayout(heap, acc, layouts) ==
    IF layouts = <<>> THEN acc
    ELSE forEachLayout(heap, traverseForms(heap, acc, Head(layouts)), Tail(layouts))

\* extractFields (452-681): the descriptors, with the deepest level and the
\* visiting order of the traversal
extractFields(heap, layouts, dictionary, resources) ==
    LET seeded == IF dictionary.present
                  THEN DictionaryPhase(<<>>, dictionary.entries, resources)
                  ELSE <<>>
        start == [fieldMap |-> seeded, deepest |-> -1, order |-> <<>>]
    IN IF layouts.kind = "absent" THEN start
       ELSE forEachLayout(heap, start, layouts.items)

----------------------------------------------------------------------------
(* extractResourceGroups (api-client.ts:684-739)                           *)

\* elem.SortOrder || elem.Order || 0
ElementOrder(elem) ==
    IF elem.SortOrder # 0 THEN elem.SortOrder
    ELSE IF "Order" \in DOMAIN elem THEN elem.Order ELSE 0

GroupElement(elem) ==
    [id |-> Or(elem.Id, Get(elem, "ID")), value |-> elem.Value,
     text |-> Or(elem.OriginalDisplayMember, elem.Value),
     order |-> ElementOrder(elem)]

\* The resourceGroup object built at 704-713 and 721-730
ResourceGroup(key, elements) ==
    [id |-> key,
     name |-> IF elements = <<>> THEN key
              ELSE Or(Get(elements[1], "ResourceGroupID"), key),
     elements |-> [i \in DOMAIN elements |-> GroupElement(elements[i])]]

RECURSIVE NestedGroups(_)
NestedGroups(children) ==
    IF children = <<>> THEN <<>>
    ELSE LET nested == Head(children) IN
         (IF nested.value.Elements # <<>>
          THEN <<ResourceGroup(nested.key, nested.value.Elements[1])>>
          ELSE <<>>) \o NestedGroups(Tail(children))

RECURSIVE TopLevelGroups(_)
TopLevelGroups(entries) ==
    IF entries = <<>> THEN <<>>
    ELSE LET top == Head(entries) IN
         (IF top.value.Elements # <<>>
          THEN <<ResourceGroup(top.key, top.value.Elements[1])>>
          ELSE NestedGroups(top.value.children)) \o TopLevelGroups(Tail(entries))

extractResourceGroups(resources) ==
    IF ~resources.present THEN <<>> ELSE TopLevelGroups(resources.entries)

----------------------------------------------------------------------------
(* FormHashGenerator.generateHash (hash-generator.ts:11-79)                *)

\* Array.prototype.sort((a, b) => a.id.localeCompare(b.id)): stable
RECURSIVE InsertById(_, _)
InsertById(sorted, item) ==
    IF sorted = <<>> THEN <<item>>
    ELSE IF localeCompare(sorted[Len(sorted)].id, item.id) <= 0
    THEN Append(sorted, item)
    ELSE Append(InsertById(SubSeq(sorted, 1, Len(sorted) - 1), item),
                sorted[Len(sorted)])

RECURSIVE SortById(_)
SortById(items) ==
    IF items = <<>> THEN <<>>
    ELSE InsertById(SortById(SubSeq(items, 1, Len(items) - 1)), items[Len(items)])

\* String(f.id || '')
IdString(id) == IF Truthy(id) THEN id ELSE ""

\* structureHash (14-27)
StructureHash(formData) ==
    [fields |->
        SortById([i \in DOMAIN formData.fields |->
            [id |-> IdString(formData.fields[i].id),
             bindingPath |-> Or(formData.fields[i].bindingPath, NULL)]]),
     resourceGroups |->
        SortById([i \in DOMAIN formData.resourceGroups |->
            [id |-> IdString(formData.resourceGroups[i].id),
             count |-> Len(formData.resourceGroups[i].elements)]])]

RECURSIVE StringifyFields(_)
StringifyFields(fields) ==
    IF fields = <<>> THEN <<>>
    ELSE <<"{", "id", ":", Head(fields).id, ",", "bindingPath", ":">>
         \o (IF Head(fields).bindingPath = NULL THEN <<"null">>
             ELSE <<"\"", Head(fields).bindingPath, "\"">>)
         \o <<"}">> \o StringifyFields(Tail(fields))

RECURSIVE StringifyGroups(_)
StringifyGroups(groups) ==
    IF groups = <<>> THEN <<>>
    ELSE <<"{", "id", ":", Head(groups).id, ",", "count", ":",
           NumStr(Head(groups).count), "}">> \o StringifyGroups(Tail(groups))

\* JSON.stringify(structureHash) (41), as a token list
JSONstringify(structureHash) ==
    <<"{", "fields", ":", "[">> \o StringifyFields(structureHash.fields)
    \o <<"]", ",", "resourceGroups", ":", "[">>
    \o StringifyGroups(structureHash.resourceGroups) \o <<"]", "}">>

\* crypto.subtle.digest('SHA-256', ...) rendered as hex (44-50): taken to be
\* collision free, so a digest stands for exactly one serialization.
SHA256Hex(tokens) == <<"sha256">> \o tokens

\* A digest over the timestamp as well as the structure
generateHash_WithTimestamp(formData) ==
    SHA256Hex(<<"timestamp", NumStr(formData.timestamp)>>
              \o JSONstringify(StructureHash(formData)))

generateHash(formData) == SHA256Hex(JSONstringify(StructureHash(formData)))

----------------------------------------------------------------------------
(* FormHashGenerator.generateQuickHash (hash-generator.ts:85-107)          *)

\* The strings of the model in the order of their UTF-16 code units, which
\* is the order Array.prototype.sort() uses when it is given no comparator
CodeUnitOrder == <<"", "F1", "F2", "c1", "c2", "null">>

CodeUnitRank(s) == CHOOSE i \in DOMAIN CodeUnitOrder : CodeUnitOrder[i] = s

\* a sorts at or before b: undefined goes last, the rest by string form
DefaultOrder(a, b) ==
    IF b = UNDEFINED THEN TRUE
    ELSE IF a = UNDEFINED THEN FALSE
    ELSE CodeUnitRank(a) <= CodeUnitRank(b)

RECURSIVE InsertDefault(_, _)
InsertDefault(sorted, item) ==
    IF sorted = <<>> THEN <<item>>
    ELSE IF DefaultOrder(sorted[Len(sorted)], item)
    THEN Append(sorted, item)
    ELSE Append(InsertDefault(SubSeq(sorted, 1, Len(sorted) - 1), item),
                sorted[Len(sorted)])

\* items.map(x => x.id), in array order
IdsOf(items) == [i \in DOMAIN items |-> items[i].id]

RECURSIVE SortDefault(_)
SortDefault(ids) ==
    IF ids = <<>> THEN <<>>
    ELSE InsertDefault(SortDefault(SubSeq(ids, 1, Len(ids) - 1)), ids[Len(ids)])

\* The ids in array order, not sorted
SortedIds_ArrayOrder(items) == IdsOf(items)

\* items.map(x => x.id).sort() (91, 92)
SortedIds(items) == SortDefault(IdsOf(items))

\* quickData (88-93)
QuickData(formData) ==
    [formId |-> formData.formHierarchyCollectionId,
     fieldCount |-> Len(formData.fields),
     fieldIds |-> SortedIds(formData.fields),
     resourceGroupIds |-> SortedIds(formData.resourceGroups)]

\* JSON.stringify of an array of ids: undefined prints as null
RECURSIVE StringifyIds(_)
StringifyIds(ids) ==
    IF ids = <<>> THEN <<>>
    ELSE (IF Head(ids) \in {UNDEFINED, NULL} THEN <<"null">>
          ELSE <<"\"", Head(ids), "\"">>)
         \o (IF Len(ids) > 1 THEN <<",">> ELSE <<>>) \o StringifyIds(Tail(ids))

\* JSON.stringify(quickData) (95): a property that is undefined is left out
StringifyQuick(quick) ==
    <<"{">>
    \o (IF quick.formId = UNDEFINED THEN <<>>
        ELSE <<"formId", ":", quick.formId, ",">>)
    \o <<"fieldCount", ":", NumStr(quick.fieldCount), ",", "fieldIds", ":", "[">>
    \o StringifyIds(quick.fieldIds)
    \o <<"]", ",", "resourceGroupIds", ":", "[">>
    \o StringifyIds(quick.resourceGroupIds)
    \o <<"]", "}">>

generateQuickHash(formData) == SHA256Hex(StringifyQuick(QuickData(formData)))

----------------------------------------------------------------------------
(* Outcome of a call: a value, or an exception that unwinds to the         *)
(* handler's catch.  A recursion that needs more than StackLimit frames    *)
(* ends in a RangeError.                                                   *)

Ok(v) == [threw |-> "none", value |-> v]
Throw(kind) == [threw |-> kind]
Threw(outcome) == outcome.threw # "none"

----------------------------------------------------------------------------
(* extractRules and normalizeExpression (api-client.ts:742-804)            *)
(* Optional objects and lists are <<>> when absent, <<x>> when present;    *)
(* an optional scalar is absent when the record has no such field; a       *)
(* group reference 0 is an absent group.                                   *)

\* A left term taken from the last term of the group
LeftTerm_LastTerm(exp) ==
    IF exp.LeftTermGroup # <<>>
       /\ exp.LeftTermGroup[1].Terms # <<>>
       /\ exp.LeftTermGroup[1].Terms[1] # <<>>
    THEN LET terms == exp.LeftTermGroup[1].Terms[1]
             t == terms[Len(terms)] IN
         <<[fieldId |-> Get(t, "BindingPathEntryID"),
            path |-> Get(t, "PathFromParentList"),
            value |-> Get(t, "Value")]>>
    ELSE <<>>

\* exp.LeftTermGroup?.Terms?.[0] ? {...} : null  (791-795)
LeftTerm(exp) ==
    IF exp.LeftTermGroup # <<>>
       /\ exp.LeftTermGroup[1].Terms # <<>>
       /\ exp.LeftTermGroup[1].Terms[1] # <<>>
    THEN LET t == exp.LeftTermGroup[1].Terms[1][1] IN
         <<[fieldId |-> Get(t, "BindingPathEntryID"),
            path |-> Get(t, "PathFromParentList"),
            value |-> Get(t, "Value")]>>
    ELSE <<>>

\* exp.RightTermGroup?.Terms ? {...} : null  (796-799)
RightTerm(exp) ==
    IF exp.RightTermGroup # <<>> /\ exp.RightTermGroup[1].Terms # <<>>
    THEN LET g == exp.RightTermGroup[1] IN
         <<[values |-> [i \in DOMAIN g.Terms[1] |-> Get(g.Terms[1][i], "Value")],
            operator |-> g.CalculationOperatorID]>>
    ELSE <<>>

NormalizedComparison(exp) ==
    [leftTerm |-> LeftTerm(exp), rightTerm |-> RightTerm(exp),
     operator |-> exp.ExpressionOperatorID]

RECURSIVE normalizeExpression(_, _, _)
RECURSIVE normalizeChildGroups(_, _, _)

\* normalizeExpression (785-804); frames counts the nested calls
normalizeExpression(heap, ref, frames) ==
    IF frames > StackLimit THEN Throw("RangeError")
    ELSE IF ref = 0 THEN Ok(<<>>)
    ELSE LET expr == heap[ref]
             children == IF expr.ChildExpressionGroups = <<>> THEN Ok(<<>>)
                         ELSE normalizeChildGroups(heap, expr.ChildExpressionGroups[1],
                                                   frames + 1)
         IN IF Threw(children) THEN children
            ELSE Ok(<<[booleanOperator |-> expr.BooleanOperatorID,
                       expressions |-> IF expr.Expressions = <<>> THEN <<>>
                                       ELSE <<[i \in DOMAIN expr.Expressions[1] |->
                                               NormalizedComparison(expr.Expressions[1][i])]>>,
                       childGroups |-> IF expr.ChildExpressionGroups = <<>> THEN <<>>
                                       ELSE <<children.value>>]>>)

\* expr.ChildExpressionGroups?.map(group => normalizeExpression(group))  (802)
normalizeChildGroups(heap, refs, frames) ==
    IF refs = <<>> THEN Ok(<<>>)
    ELSE LET first == normalizeExpression(heap, Head(refs), frames) IN
         IF Threw(first) THEN first
         ELSE LET rest == normalizeChildGroups(heap, Tail(refs), frames) IN
              IF Threw(rest) THEN rest ELSE Ok(<<first.value>> \o rest.value)

\* ko.isObservable(x) ? ko.unwrap(x) : x  (746-747)
UnwrapIfObservable(cell) == cell.value

RECURSIVE ValidationRules(_, _)
ValidationRules(heap, rules) ==
    IF rules = <<>> THEN Ok(<<>>)
    ELSE LET rule == Head(rules) IN
         IF rule.ActionType # "Validation" THEN ValidationRules(heap, Tail(rules))
         ELSE LET expression == normalizeExpression(heap, rule.ExpressionGroup, 1) IN
              IF Threw(expression) THEN expression
              ELSE LET rest == ValidationRules(heap, Tail(rules)) IN
                   IF Threw(rest) THEN rest
                   ELSE Ok(<<[type |-> "validation", id |-> rule.ActionID,
                              targetField |-> Get(rule, "AffectedBindingPathEntryID"),
                              errorMessage |-> Get(rule, "ErrorMessage"),
                              expression |-> expression.value]>> \o rest.value)

RECURSIVE VisibilityRules(_, _)
VisibilityRules(heap, rules) ==
    IF rules = <<>> THEN Ok(<<>>)
    ELSE LET rule == Head(rules) IN
         IF rule.ActionType # "Visibility" THEN VisibilityRules(heap, Tail(rules))
         ELSE LET expression == normalizeExpression(heap, rule.ExpressionGroup, 1) IN
              IF Threw(expression) THEN expression
              ELSE LET rest == VisibilityRules(heap, Tail(rules)) IN
                   IF Threw(rest) THEN rest
                   ELSE Ok(<<[type |-> "visibility", id |-> rule.ActionID,
                              targetField |-> Or(Get(rule, "FieldNodeID"),
                                                 Get(rule, "AffectedFormHierarchyId")),
                              expression |-> expression.value]>> \o rest.value)

\* extractRules (742-782); a list that is absent or not an array is skipped
extractRules(heap, engine) ==
    LET validations == IF engine.present
                       THEN UnwrapIfObservable(engine.indexedValidationActions) ELSE <<>>
        visibilities == IF engine.present
                        THEN UnwrapIfObservable(engine.indexedVisibilityActions) ELSE <<>>
        first == IF validations = <<>> THEN Ok(<<>>)
                 ELSE ValidationRules(heap, validations[1])
    IN IF Threw(first) THEN first
       ELSE LET second == IF visibilities = <<>> THEN Ok(<<>>)
                          ELSE VisibilityRules(heap, visibilities[1])
            IN IF Threw(second) THEN second ELSE Ok(first.value \o second.value)

----------------------------------------------------------------------------
(* extractRepeaters (api-client.ts:807-830)                                *)

RECURSIVE findRepeaters(_, _, _, _)
RECURSIVE findRepeatersIn(_, _, _, _)

\* findRepeaters (810-826) on a layout or control object
findRepeaters(heap, repeaters, node, frames) ==
    IF frames > StackLimit THEN Throw("RangeError")
    ELSE LET found == IF node.IsRepeating \/ node.ControlType = "Repeater"
                      THEN Append(repeaters,
                                  [id |-> Get(node, "ID"),
                                   childBindings |->
                                      [i \in DOMAIN node.Controls |->
                                          heap[node.Controls[i]].BindingPathEntryID]])
                      ELSE repeaters
         IN findRepeatersIn(heap, found, node.Controls, frames + 1)

findRepeatersIn(heap, repeaters, refs, frames) ==
    IF refs = <<>> THEN Ok(repeaters)
    ELSE LET first == findRepeaters(heap, repeaters, heap[Head(refs)], frames) IN
         IF Threw(first) THEN first
         ELSE findRepeatersIn(heap, first.value, Tail(refs), frames)

RECURSIVE findRepeatersInLayouts(_, _, _)
findRepeatersInLayouts(heap, repeaters, layouts) ==
    IF layouts = <<>> THEN Ok(repeaters)
    ELSE LET first == findRepeaters(heap, repeaters, Head(layouts), 1) IN
         IF Threw(first) THEN first
         ELSE findRepeatersInLayouts(heap, first.value, Tail(layouts))

\* A discovery that calls layouts.forEach without the optional chaining
extractRepeaters_RequiresLayouts(heap, layouts) ==
    CASE layouts.kind = "array" -> findRepeatersInLayouts(heap, <<>>, layouts.items)
      [] OTHER -> Throw("TypeError")

\* extractRepeaters (807-830): layouts?.forEach exists on arrays only
extractRepeaters(heap, layouts) ==
    CASE layouts.kind = "absent" -> Ok(<<>>)
      [] layouts.kind = "object" -> Throw("TypeError")
      [] OTHER -> findRepeatersInLayouts(heap, <<>>, layouts.items)

----------------------------------------------------------------------------
(* extractFormActions (api-client.ts:833-870)                              *)

\* formActions[path].length and .map need a list under every path; each
\* action is copied property by property (846-863)
RECURSIVE CopyPaths(_)
CopyPaths(paths) ==
    IF paths = <<>> THEN Ok(<<>>)
    ELSE IF Head(paths).actions = <<>> THEN Throw("TypeError")
    ELSE LET rest == CopyPaths(Tail(paths)) IN
         IF Threw(rest) THEN rest
         ELSE Ok(<<[path |-> Head(paths).path,
                    actions |-> <<Head(paths).actions[1]>>]>> \o rest.value)

\* null when FormActions is absent, else the copied map
extractFormActions(formActions) ==
    IF ~formActions.present THEN Ok(<<>>)
    ELSE LET copied == CopyPaths(formActions.paths) IN
         IF Threw(copied) THEN copied ELSE Ok(<<copied.value>>)

----------------------------------------------------------------------------
(* analyzeOperators (api-client.ts:873-936)                                *)

\* Array.from(set).sort((a, b) => a - b)  (925-927): a stable sort of the
\* Set's members, in insertion order, by their numeric value
RECURSIVE InsertAscending(_, _)
InsertAscending(sorted, v) ==
    IF sorted = <<>> THEN <<v>>
    ELSE IF ToNumber(Head(sorted)) - ToNumber(v) <= 0
    THEN <<Head(sorted)>> \o InsertAscending(Tail(sorted), v)
    ELSE <<v>> \o sorted

RECURSIVE SortAscending(_)
SortAscending(set) ==
    IF set = <<>> THEN <<>>
    ELSE InsertAscending(SortAscending(SubSeq(set, 1, Len(set) - 1)), set[Len(set)])

\* exp.LeftTermGroup?.CalculationOperatorID, likewise for the right group
CalculationOperatorOf(termGroup) ==
    IF termGroup = <<>> THEN UndefinedValue ELSE termGroup[1].CalculationOperatorID

\* if (v !== undefined && v !== null) set.add(v)  (894-896, 901-903)
AddUnlessNullish(set, v) ==
    IF v \notin {UndefinedValue, NullValue} THEN SetAdd(set, v) ELSE set

\* if (v !== undefined) set.add(v)  (906-911)
AddUnlessUndefined(set, v) ==
    IF v # UndefinedValue THEN SetAdd(set, v) ELSE set

\* A collection that reads the calculation operator of the right term
\* group only
ComparisonOperators_RightOnly(ops, exp) ==
    [ops EXCEPT
        !.expression = AddUnlessNullish(@, exp.ExpressionOperatorID),
        !.calculation = AddUnlessUndefined(@, CalculationOperatorOf(exp.RightTermGroup))]

\* One entry of expr.Expressions (900-912)
ComparisonOperators(ops, exp) ==
    [ops EXCEPT
        !.expression = AddUnlessNullish(@, exp.ExpressionOperatorID),
        !.calculation =
            AddUnlessUndefined(
                AddUnlessUndefined(@, CalculationOperatorOf(exp.LeftTermGroup)),
                CalculationOperatorOf(exp.RightTermGroup))]

RECURSIVE ExpressionsOperators(_, _)
ExpressionsOperators(ops, exps) ==
    IF exps = <<>> THEN ops
    ELSE ExpressionsOperators(ComparisonOperators(ops, Head(exps)), Tail(exps))

RECURSIVE analyzeExpression(_, _, _, _)
RECURSIVE analyzeChildGroups(_, _, _, _)

\* analyzeExpression (890-919)
analyzeExpression(heap, ops, ref, frames) ==
    IF frames > StackLimit THEN Throw("RangeError")
    ELSE IF ref = 0 THEN Ok(ops)
    ELSE LET expr == heap[ref]
             withBoolean == [ops EXCEPT
                                !.boolean = AddUnlessNullish(@, expr.BooleanOperatorID)]
             withExpressions == IF expr.Expressions = <<>> THEN withBoolean
                                ELSE ExpressionsOperators(withBoolean, expr.Expressions[1])
         IN IF expr.ChildExpressionGroups = <<>> THEN Ok(withExpressions)
            ELSE analyzeChildGroups(heap, withExpressions,
                                    expr.ChildExpressionGroups[1], frames + 1)

analyzeChildGroups(heap, ops, refs, frames) ==
    IF refs = <<>> THEN Ok(ops)
    ELSE LET first == analyzeExpression(heap, ops, Head(refs), frames) IN
         IF Threw(first) THEN first
         ELSE analyzeChildGroups(heap, first.value, Tail(refs), frames)

RECURSIVE AnalyzeActions(_, _, _)
AnalyzeActions(heap, ops, actions) ==
    IF actions = <<>> THEN Ok(ops)
    ELSE LET first == IF Head(actions).ExpressionGroup # 0
                      THEN analyzeExpression(heap, ops, Head(actions).ExpressionGroup, 1)
                      ELSE Ok(ops)
         IN IF Threw(first) THEN first
            ELSE AnalyzeActions(heap, first.value, Tail(actions))

\* Object.values(formActions).flat()  (887)
RECURSIVE Flat(_)
Flat(paths) ==
    IF paths = <<>> THEN <<>> ELSE Head(paths).actions[1] \o Flat(Tail(paths))

\* An analysis that answers absent FormActions with three empty lists
analyzeOperators_EmptyWhenAbsent(heap, formActions) ==
    IF \E i \in DOMAIN formActions.paths : formActions.paths[i].actions = <<>>
    THEN Throw("TypeError")
    ELSE LET ops == AnalyzeActions(heap,
                       [expression |-> <<>>, boolean |-> <<>>, calculation |-> <<>>],
                       Flat(formActions.paths))
         IN IF Threw(ops) THEN ops
            ELSE Ok(<<[expression |-> SortAscending(ops.value.expression),
                       boolean |-> SortAscending(ops.value.boolean),
                       calculation |-> SortAscending(ops.value.calculation)]>>)

\* null when FormActions is absent, else the three sorted lists
analyzeOperators(heap, formActions) ==
    IF ~formActions.present THEN Ok(<<>>)
    ELSE IF \E i \in DOMAIN formActions.paths : formActions.paths[i].actions = <<>>
    THEN Throw("TypeError")
    ELSE LET ops == AnalyzeActions(heap,
                       [expression |-> <<>>, boolean |-> <<>>, calculation |-> <<>>],
                       Flat(formActions.paths))
         IN IF Threw(ops) THEN ops
            ELSE Ok(<<[expression |-> SortAscending(ops.value.expression),
                       boolean |-> SortAscending(ops.value.boolean),
                       calculation |-> SortAscending(ops.value.calculation)]>>)

----------------------------------------------------------------------------
(* extractFormMapping (api-client.ts:347-449)                              *)

\* vmObservable?.Resources || formComposer?.agencyResources  (386, 389)
ResourcesOf(composer, vm) ==
    IF vm.present /\ vm.Resources.present THEN vm.Resources
    ELSE composer.agencyResources

\* vmObservable?.FormActions  (392, 395)
FormActionsOf(vm) ==
    IF vm.present THEN vm.FormActions ELSE [present |-> FALSE, paths |-> <<>>]

\* The statistics block (420-428)
Stats(fields, resourceGroups, formActions, operators, rules, repeaters) ==
    [fieldCount |-> Len(fields),
     resourceGroupCount |-> Len(resourceGroups),
     ruleCount |-> Len(rules),
     repeaterCount |-> Len(repeaters),
     fieldsWithBindingPath |->
        Cardinality({i \in DOMAIN fields : Truthy(fields[i].bindingPath)}),
     formActionCount |-> IF formActions = <<>> THEN 0 ELSE Len(Flat(formActions[1])),
     validationRuleCount |->
        IF formActions = <<>> THEN 0
        ELSE Cardinality({i \in DOMAIN Flat(formActions[1]) :
                            Flat(formActions[1])[i].ActionType = "Validation"}),
     uniqueOperators |-> IF operators = <<>> THEN 0 ELSE Len(operators[1].expression)]

\* The stages in the order the object literal evaluates them (367-401);
\* the first exception ends the try block.
extractFormMapping(composer, vm, engine, controls, groups, now) ==
    LET resources == ResourcesOf(composer, vm)
        fieldsRun == extractFields(controls, composer.agencyLayouts,
                                      composer.formFieldDictionary, resources)
        fields == fieldsRun.fieldMap
        resourceGroups == extractResourceGroups(resources)
        formActions == extractFormActions(FormActionsOf(vm))
        operators == analyzeOperators(groups, FormActionsOf(vm))
        rules == extractRules(groups, engine)
        repeaters == extractRepeaters(controls, composer.agencyLayouts)
        failed == CASE ~composer.present -> "formComposer"
                    [] Threw(formActions) -> "formActions"
                    [] Threw(operators) -> "operators"
                    [] Threw(rules) -> "rules"
                    [] Threw(repeaters) -> "repeaters"
                    [] OTHER -> "none"
        error == CASE failed = "formComposer" -> "TypeError"
                   [] failed = "formActions" -> formActions.threw
                   [] failed = "operators" -> operators.threw
                   [] failed = "rules" -> rules.threw
                   [] failed = "repeaters" -> repeaters.threw
                   [] OTHER -> "none"
    IN [message |->
            IF failed = "none"
            THEN [type |-> "IMAGETREND_DATA",
                  payload |->
                    [timestamp |-> now,
                     formHierarchyCollectionId |-> composer.formHierarchyCollectionId,
                     fields |-> fields,
                     resourceGroups |-> resourceGroups,
                     formActions |-> formActions.value,
                     operators |-> operators.value,
                     rules |-> rules.value,
                     repeaters |-> repeaters.value,
                     stats |-> Stats(fields, resourceGroups, formActions.value,
                                     operators.value, rules.value, repeaters.value)]]
            ELSE [type |-> "IMAGETREND_ERROR", payload |-> [error |-> error]],
        stages |->
            [failed |-> failed, error |-> error,
             fields |-> IF composer.present THEN <<fields>> ELSE <<>>,
             deepest |-> IF composer.present THEN fieldsRun.deepest ELSE -1,
             order |-> IF composer.present THEN fieldsRun.order ELSE <<>>,
             resourceGroups |-> IF composer.present THEN <<resourceGroups>> ELSE <<>>]]

----------------------------------------------------------------------------
(* The objects a page can hold (ImageTrendWindow, api-client.ts:282-303)   *)

Nodes == 1..NumNodes
Groups == 1..NumGroups

Element(i) ==
    [Id |-> NumStr(i), Value |-> IF i = 1 THEN "Y" ELSE "N",
     OriginalDisplayMember |-> UNDEFINED, SortOrder |-> i - 1]

ElementList(n) == [i \in 1..n |-> Element(i)]

\* A value of the resource table: a group carries Elements, a container
\* carries nested keys, a bare object carries neither.
GroupValue(n) == [Elements |-> <<ElementList(n)>>, children |-> <<>>]
BareValue == [Elements |-> <<>>, children |-> <<>>]
ContainerValue(children) == [Elements |-> <<>>, children |-> children]
Entry(key, value) == [key |-> key, value |-> value]

NoResources == [present |-> FALSE, entries |-> <<>>]
ResourceTable(entries) == [present |-> TRUE, entries |-> entries]

Control(id, bindingPath, controlType, children) ==
    [BindingPathEntryID |-> id, BindingPath |-> bindingPath,
     ControlType |-> controlType, Label |-> UNDEFINED, Required |-> FALSE,
     ResourceGroupID |-> UNDEFINED, IsRepeating |-> FALSE, IsCollection |-> FALSE,
     MaxCardinality |-> 0, IsRequired |-> FALSE,
     FormManagerNoDataNodeID |-> UNDEFINED, Controls |-> children]

PlainControl == Control(UNDEFINED, UNDEFINED, "TextBox", <<>>)

Panel(controls) == [Controls |-> controls]
Form(panels, controls) == [Panels |-> panels, Controls |-> controls]
Layout(forms, panels, controls) ==
    [Forms |-> forms, Panels |-> panels, Controls |-> controls,
     IsRepeating |-> FALSE, ControlType |-> UNDEFINED]

\* The places of a layout where a list of controls can hang
LayoutShapes(controls) ==
    { Layout(<<Form(<<>>, controls)>>, <<>>, <<>>),
      Layout(<<Form(<<Panel(controls)>>, <<>>)>>, <<>>, <<>>),
      Layout(<<>>, <<Panel(controls)>>, <<>>),
      Layout(<<>>, <<>>, controls) }

NoLayouts == [kind |-> "absent", items |-> <<>>]
LayoutArray(items) == [kind |-> "array", items |-> items]
LayoutObject(layout) == [kind |-> "object", items |-> <<layout>>]

DictionaryEntry(bpID, entryId, key, type) ==
    [bpID |-> bpID, bindingPathEntryId |-> entryId, key |-> key,
     type |-> type, controlType |-> UNDEFINED]

NoDictionary == [present |-> FALSE, entries |-> <<>>]
Dictionary(entries) == [present |-> TRUE, entries |-> entries]

Composer(layouts, dictionary, resources) ==
    [present |-> TRUE, agencyLayouts |-> layouts,
     formFieldDictionary |-> dictionary, agencyResources |-> resources,
     formHierarchyCollectionId |-> "form-1"]

NoComposer ==
    [present |-> FALSE, agencyLayouts |-> NoLayouts,
     formFieldDictionary |-> NoDictionary, agencyResources |-> NoResources,
     formHierarchyCollectionId |-> UNDEFINED]

NoFormActions == [present |-> FALSE, paths |-> <<>>]
FormActions(paths) == [present |-> TRUE, paths |-> paths]
NoViewModel == [present |-> FALSE, Resources |-> NoResources, FormActions |-> NoFormActions]
ViewModel(resources, formActions) ==
    [present |-> TRUE, Resources |-> resources, FormActions |-> formActions]

Action(type, group) == [ActionType |-> type, ActionID |-> "a1", ExpressionGroup |-> group]

Cell(observable, value) == [observable |-> observable, value |-> value]
NoEngine ==
    [present |-> FALSE, indexedValidationActions |-> Cell(FALSE, <<>>),
     indexedVisibilityActions |-> Cell(FALSE, <<>>)]
Engine(validations, visibilities) ==
    [present |-> TRUE, indexedValidationActions |-> validations,
     indexedVisibilityActions |-> visibilities]

Term(value) == [BindingPathEntryID |-> "F1", Value |-> value]
TermGroup(terms, operator) == [Terms |-> terms, CalculationOperatorID |-> operator]
Comparison ==
    [ExpressionOperatorID |-> NumberValue(3),
     LeftTermGroup |-> <<TermGroup(<<<<Term("a"), Term("b")>>>>, UndefinedValue)>>,
     RightTermGroup |-> <<TermGroup(<<<<Term("c"), Term("d")>>>>, NumberValue(2))>>]

ExpressionGroup(expressions, children) ==
    [BooleanOperatorID |-> NumberValue(1), Expressions |-> expressions,
     ChildExpressionGroups |-> children]

\* A comparison with the given operator codes; an empty right is a
\* comparison without RightTermGroup
OperatorComparison(operator, left, right) ==
    [ExpressionOperatorID |-> operator,
     LeftTermGroup |-> <<TermGroup(<<<<Term("a")>>>>, left)>>,
     RightTermGroup |-> IF right = <<>> THEN <<>>
                        ELSE <<TermGroup(<<<<Term("c")>>>>, right[1])>>]

PlainGroup == ExpressionGroup(<<>>, <<>>)

PlainControls == [n \in Nodes |-> PlainControl]
PlainGroups == [g \in Groups |-> PlainGroup]

----------------------------------------------------------------------------
(* Pages                                                                   *)

Page(composer, vm, engine, controls, groups) ==
    /\ formComposer = composer
    /\ vmObservable = vm
    /\ logicEngine = engine
    /\ controlHeap = controls
    /\ groupHeap = groups

\* A control of the reconciliation pages: the binding path decides the
\* other attributes, so that two controls differ in all of them.
FieldControl(id, bindingPath, children) ==
    [Control(id, bindingPath,
             IF bindingPath = "/z" THEN "DataGrid" ELSE "TextBox", children)
     EXCEPT !.Required = (bindingPath = "/z"),
            !.IsRepeating = (bindingPath = "/z"),
            !.ResourceGroupID = IF bindingPath = "/z" THEN "F2" ELSE UNDEFINED,
            !.Label = IF bindingPath = "/z" THEN "Z" ELSE UNDEFINED]

FormLayout(controls) == Layout(<<Form(<<>>, controls)>>, <<>>, <<>>)

\* Two layouts that name fields, and two containers that share a nested key
OrderPages ==
    \E id2 \in {"F1", "F2"}, n \in 1..MaxElements, withDictionary \in BOOLEAN :
        Page(Composer(LayoutArray(<<FormLayout(<<1>>), FormLayout(<<2>>)>>),
                      IF withDictionary
                      THEN Dictionary(<<DictionaryEntry("F1", UNDEFINED, "A", "SingleSelect")>>)
                      ELSE NoDictionary,
                      ResourceTable(<<
                          Entry("c1", ContainerValue(<<Entry("F1", GroupValue(1)),
                                                       Entry("F2", GroupValue(1))>>)),
                          Entry("c2", ContainerValue(<<Entry("F1", GroupValue(n))>>))>>)),
             NoViewModel, NoEngine,
             [k \in Nodes |-> IF k = 1 THEN FieldControl("F1", "/x/y", <<>>)
                              ELSE IF k = 2 THEN FieldControl(id2, "/z", <<>>)
                              ELSE PlainControl],
             PlainGroups)

\* One control with every combination of the multi-value signals
ClassifyPages ==
    \E controlType \in {"TextBox", "DataGrid", "gridview", "MultiSelect"},
       bindingPath \in {"/x/y", "/x[]/y", UNDEFINED},
       repeating \in BOOLEAN, collection \in BOOLEAN,
       cardinality \in 0..2, inDictionary \in BOOLEAN :
        Page(Composer(LayoutArray(<<FormLayout(<<1>>)>>),
                      IF inDictionary
                      THEN Dictionary(<<DictionaryEntry("F1", UNDEFINED, "A", "TextBox")>>)
                      ELSE NoDictionary,
                      NoResources),
             NoViewModel, NoEngine,
             [k \in Nodes |->
                IF k = 1
                THEN [Control("F1", bindingPath, controlType, <<>>)
                      EXCEPT !.IsRepeating = repeating, !.IsCollection = collection,
                             !.MaxCardinality = cardinality]
                ELSE PlainControl],
             PlainGroups)

\* Dictionary entries and layout controls that share ids
ReconcilePages ==
    \E id1 \in {"F1", "F2"}, id2 \in {"F1", "F2"},
       path1 \in {"/x/y", "/z"}, path2 \in {"/x/y", "/z"},
       nested \in BOOLEAN,
       roots \in {<<1>>, <<1, 2>>, <<2, 1>>},
       asObject \in BOOLEAN,
       entries \in {<<DictionaryEntry("F1", UNDEFINED, "A", "TextBox")>>,
                    <<DictionaryEntry("F1", UNDEFINED, "A", "TextBox"),
                      DictionaryEntry(UNDEFINED, "F1", "B", "TextBox")>>,
                    <<DictionaryEntry("F2", UNDEFINED, "B", "TextBox"),
                      DictionaryEntry("F1", UNDEFINED, "A", "TextBox")>>} :
    \E layout \in LayoutShapes(roots) :
        Page(Composer(IF asObject THEN LayoutObject(layout) ELSE LayoutArray(<<layout>>),
                      Dictionary(entries), NoResources),
             NoViewModel, NoEngine,
             [k \in Nodes |->
                IF k = 1 THEN FieldControl(id1, path1, IF nested THEN <<2>> ELSE <<>>)
                ELSE IF k = 2 THEN FieldControl(id2, path2, <<>>)
                ELSE PlainControl],
             PlainGroups)

\* A selectable dictionary field against the shapes of the resource table
LookupPages ==
    \E type \in {"SingleSelect", "MultiSelect", "TextBox"},
       byEntryId \in BOOLEAN, viaViewModel \in BOOLEAN,
       top \in {<<>>, <<Entry("F1", BareValue)>>}
                \cup {<<Entry("F1", GroupValue(n))>> : n \in 0..MaxElements},
       in1 \in {<<>>, <<Entry("F1", BareValue)>>, <<Entry("F1", GroupValue(1))>>},
       in2 \in {<<>>, <<Entry("F1", BareValue)>>, <<Entry("F1", GroupValue(MaxElements))>>},
       present \in BOOLEAN :
        LET table == IF present
                     THEN ResourceTable(<<Entry("c1", ContainerValue(in1)),
                                         Entry("c2", ContainerValue(in2))>> \o top)
                     ELSE NoResources
        IN /\ present \/ (top = <<>> /\ in1 = <<>> /\ in2 = <<>>)
           /\ viaViewModel => (type = "SingleSelect" /\ ~byEntryId)
           /\ Page(Composer(NoLayouts,
                            Dictionary(<<IF byEntryId
                                         THEN DictionaryEntry(UNDEFINED, "F1", "A", type)
                                         ELSE DictionaryEntry("F1", UNDEFINED, "A", type)>>),
                            IF viaViewModel THEN NoResources ELSE table),
                   IF viaViewModel THEN ViewModel(table, NoFormActions) ELSE NoViewModel,
                   NoEngine, PlainControls, PlainGroups)

\* Control trees whose Controls lists may lead back to an ancestor
ChildLists == {<<>>} \cup {<<m>> : m \in Nodes}

CyclicLayoutPages ==
    \E children \in [Nodes -> ChildLists], asObject \in BOOLEAN :
    \E layout \in LayoutShapes(<<1>>) :
        Page(Composer(IF asObject THEN LayoutObject(layout) ELSE LayoutArray(<<layout>>),
                      NoDictionary, NoResources),
             NoViewModel, NoEngine,
             [k \in Nodes |-> FieldControl(IF k = 1 THEN "F1" ELSE "F2", "/x/y", children[k])],
             PlainGroups)

\* Rule tables whose child groups may lead back to an ancestor
ChildGroupLists == {<<>>, <<<<>>>>} \cup {<<<<h>>>> : h \in Groups}

RulePages ==
    \E children \in [Groups -> ChildGroupLists],
       formActions \in {NoFormActions,
                        FormActions(<<>>),
                        FormActions(<<[path |-> "p1", actions |-> <<>>]>>),
                        FormActions(<<[path |-> "p1",
                                       actions |-> <<<<Action("Validation", 0)>>>>]>>),
                        FormActions(<<[path |-> "p1",
                                       actions |-> <<<<Action("Validation", 1)>>>>]>>)},
       engine \in {NoEngine,
                   Engine(Cell(TRUE, <<<<Action("Validation", 0)>>>>), Cell(FALSE, <<>>)),
                   Engine(Cell(TRUE, <<<<Action("Validation", 1)>>>>),
                          Cell(FALSE, <<<<Action("Visibility", 2)>>>>))} :
        Page(Composer(LayoutArray(<<FormLayout(<<1>>)>>),
                      Dictionary(<<DictionaryEntry("F1", UNDEFINED, "A", "SingleSelect")>>),
                      ResourceTable(<<Entry("F1", GroupValue(MaxElements))>>)),
             ViewModel(NoResources, formActions), engine,
             [k \in Nodes |-> IF k = 1 THEN FieldControl("F1", "/x/y", <<>>) ELSE PlainControl],
             [g \in Groups |->
                ExpressionGroup(IF g = 1 THEN <<<<Comparison>>>> ELSE <<>>, children[g])])

\* Form actions whose groups carry every kind of operator code: a number,
\* null, or none; group 1 may hold group 2 as its child
OperatorPages ==
    \E boolean \in {UndefinedValue, NullValue, NumberValue(1), NumberValue(2)},
       operator \in {NullValue, NumberValue(1), NumberValue(2)},
       left \in {UndefinedValue, NullValue, NumberValue(2), NumberValue(3)},
       right \in {<<>>, <<UndefinedValue>>, <<NumberValue(1)>>, <<NumberValue(3)>>},
       nested \in BOOLEAN :
        Page(Composer(NoLayouts, NoDictionary, NoResources),
             ViewModel(NoResources,
                       FormActions(<<[path |-> "p1",
                                      actions |-> <<<<Action("Validation", 1)>>>>],
                                     [path |-> "p2",
                                      actions |-> <<<<Action("Visibility", 0),
                                                      Action("Validation", 2)>>>>]>>)),
             NoEngine, PlainControls,
             [g \in Groups |->
                IF g = 1
                THEN [ExpressionGroup(<<<<OperatorComparison(operator, left, right),
                                          OperatorComparison(NumberValue(1), NumberValue(3),
                                                             <<NumberValue(2)>>)>>>>,
                                      IF nested THEN <<<<2>>>> ELSE <<>>)
                      EXCEPT !.BooleanOperatorID = boolean]
                ELSE IF g = 2
                THEN ExpressionGroup(<<<<OperatorComparison(NumberValue(1), NumberValue(2),
                                                            <<NullValue>>)>>>>, <<>>)
                ELSE PlainGroup])

\* FieldDictionary=[{bpID:"F1", type:"SingleSelect"}] with
\* ResourceTable={"F1":{Elements:[{Id:"1",Value:"Y",SortOrder:0},
\* {Id:"2",Value:"N",SortOrder:1}]}} and nothing else
ScenarioDictionary == Dictionary(<<DictionaryEntry("F1", UNDEFINED, UNDEFINED, "SingleSelect")>>)
ScenarioResources ==
    ResourceTable(<<Entry("F1", [Elements |-> <<<<Element(1), Element(2)>>>>,
                                 children |-> <<>>])>>)
ScenarioPage ==
    Page(Composer(NoLayouts, ScenarioDictionary, ScenarioResources),
         NoViewModel, NoEngine, PlainControls, PlainGroups)

\* A page whose form composer is gone
EmptyPage == Page(NoComposer, NoViewModel, NoEngine, PlainControls, PlainGroups)

\* The background service worker, the popup and the content script before
\* any of them has run
\* chrome.storage.session without any token key
\* No SessionData (auth.ts:198-204): companyId 0 stands for an absent
\* value; url is the URL the session was established for, which the code
\* does not store
NoCompanySession ==
    [companyId |-> 0, companyName |-> 0, agencyCode |-> "", url |-> "none",
     establishedAt |-> 0, lastActivity |-> 0]

EmptySession ==
    [access_token |-> 0, refresh_token |-> 0, id_token |-> 0,
     token_expiry |-> 0, user_info |-> 0,
     active_company_session |-> NoCompanySession]

NoPayload == [extraction |-> 0, url |-> "none"]

\* The answer the popup last got to GET_LAST_EXTRACTION, none so far
NotAsked == [asked |-> FALSE, reply |-> 0, history |-> <<>>]

\* The background, the content script and the popup before any message,
\* with the extraction history the service worker holds
BackgroundWith(history) ==
    /\ dateNow = 0
    /\ oktaAuth = [pendingState |-> 0, pendingVerifier |-> 0, logins |-> 0, callbacks |-> 0]
    /\ calls = <<>>
    /\ extractionHistory = history
    /\ localStorage = [lastExtractionTime |-> -1, company |-> 0, cached_at |-> 0,
                       wrapped |-> FALSE]
    /\ contentScript = [isImageTrendReady |-> FALSE, extractedData |-> NoPayload,
                        listeners |-> 0]
    /\ popup = [isAuthenticated |-> TRUE, companyInfo |-> TRUE,
                isExtracting |-> FALSE, isSending |-> FALSE,
                pendingExtraction |-> NoPayload, lastExtraction |-> 0,
                extracts |-> 0, confirmed |-> 0, getLast |-> NotAsked]
    /\ runtimeMessages = <<>>

BackgroundIdle == BackgroundWith(<<>>)

\* The URLs of a page: one under /RunForm/Agency<code>/ and one elsewhere
PageUrls == {"agency", "plain"}

\* url.match(/\/RunForm\/Agency([^\/]+)\//i): the agency code of a URL,
\* "null" for null; "agency/other" is another page of the agency of
\* "agency", "agency2" a page of another agency
\* (api-client.ts:261-265, part_005:16-20, auth.ts:207-211)
extractAgencyCode(url) ==
    CASE url \in {"agency", "agency/other"} -> "a"
      [] url = "agency2" -> "b"
      [] OTHER -> "null"

\* The main world of a page at url that has received no request
MainWorld(url) ==
    [requests |-> 0, posts |-> 0, url |-> url,
     present |-> FALSE, runs |-> <<>>, listeners |-> 0, windowMessages |-> <<>>,
     extractRequests |-> <<>>]

\* No login has taken place
SignedOut == session = EmptySession /\ idp = [issued |-> 0, valid |-> {}]


Init ==
    /\ \/ OrderPages
       \/ ClassifyPages
       \/ ReconcilePages
       \/ LookupPages
       \/ CyclicLayoutPages
       \/ RulePages
       \/ OperatorPages
       \/ ScenarioPage
       \/ EmptyPage
    /\ clock = 0
    /\ posted = <<>>
    /\ probe = <<>>
    /\ hashes = {}
    /\ BackgroundIdle
    /\ SignedOut
    /\ mainWorld = MainWorld("agency")

----------------------------------------------------------------------------
(* Actions                                                                 *)

\* An extraction that unwraps the observables of the logic engine in place
ExtractMapping_UnwrapsInPlace ==
    /\ Len(posted) < MaxRuns
    /\ LET now == clock + 1
           run == extractFormMapping(formComposer, vmObservable, logicEngine,
                                     controlHeap, groupHeap, now)
       IN /\ clock' = now
          /\ posted' = Append(posted, run.message)
          /\ probe' = Append(probe, [graph |-> graphVars, now |-> now] @@ run.stages)
    /\ logicEngine' = [logicEngine EXCEPT !.indexedValidationActions.observable = FALSE,
                                          !.indexedVisibilityActions.observable = FALSE]
    /\ UNCHANGED <<formComposer, vmObservable, controlHeap, groupHeap, hashes>>
    /\ UNCHANGED backgroundVars

\* EXTRACT_MAPPING received: extractFormMapping runs to its postMessage
ExtractMapping ==
    /\ Len(posted) < MaxRuns
    /\ LET now == clock + 1
           run == extractFormMapping(formComposer, vmObservable, logicEngine,
                                     controlHeap, groupHeap, now)
       IN /\ clock' = now
          /\ posted' = Append(posted, run.message)
          /\ probe' = Append(probe, [graph |-> graphVars, now |-> now] @@ run.stages)
    /\ UNCHANGED <<graphVars, hashes>>
    /\ UNCHANGED backgroundVars

\* formHashGenerator.generateHash(payload) and generateQuickHash(payload)
\* on a delivered payload
GenerateHash ==
    \E run \in DOMAIN posted :
        /\ posted[run].type = "IMAGETREND_DATA"
        /\ \A h \in hashes : h.run # run
        /\ \A earlier \in 1..(run - 1) :
              posted[earlier].type = "IMAGETREND_DATA" => \E h \in hashes : h.run = earlier
        /\ hashes' = hashes \cup {[run |-> run,
                                 hash |-> generateHash(posted[run].payload),
                                 quick |-> generateQuickHash(posted[run].payload)]}
        /\ UNCHANGED <<graphVars, clock, posted, probe>>
        /\ UNCHANGED backgroundVars

SwapAt(seq, i) ==
    [k \in DOMAIN seq |-> IF k = i THEN seq[i + 1] ELSE IF k = i + 1 THEN seq[i] ELSE seq[k]]

\* The host rebuilds agencyLayouts with two neighbouring layouts exchanged
HostReorderLayouts ==
    /\ formComposer.present /\ formComposer.agencyLayouts.kind = "array"
    /\ Len(posted) < MaxRuns
    /\ \E i \in 1..(Len(formComposer.agencyLayouts.items) - 1) :
          formComposer' = [formComposer EXCEPT !.agencyLayouts.items = SwapAt(@, i)]
    /\ UNCHANGED <<vmObservable, logicEngine, controlHeap, groupHeap,
                   clock, posted, probe, hashes>>
    /\ UNCHANGED backgroundVars

\* The host rebuilds a container of agencyResources with two neighbouring
\* keys exchanged
HostReorderNestedKeys ==
    /\ formComposer.present /\ formComposer.agencyResources.present
    /\ Len(posted) < MaxRuns
    /\ \E t \in DOMAIN formComposer.agencyResources.entries :
       \E i \in 1..(Len(formComposer.agencyResources.entries[t].value.children) - 1) :
          formComposer' = [formComposer EXCEPT
              !.agencyResources.entries[t].value.children = SwapAt(@, i)]
    /\ UNCHANGED <<vmObservable, logicEngine, controlHeap, groupHeap,
                   clock, posted, probe, hashes>>
    /\ UNCHANGED backgroundVars

\* The host rebuilds agencyResources with two neighbouring top-level keys
\* exchanged
HostReorderTopKeys ==
    /\ formComposer.present /\ formComposer.agencyResources.present
    /\ Len(posted) < MaxRuns
    /\ \E i \in 1..(Len(formComposer.agencyResources.entries) - 1) :
          formComposer' = [formComposer EXCEPT !.agencyResources.entries = SwapAt(@, i)]
    /\ UNCHANGED <<vmObservable, logicEngine, controlHeap, groupHeap,
                   clock, posted, probe, hashes>>
    /\ UNCHANGED backgroundVars

Next ==
    \/ ExtractMapping
    \/ GenerateHash
    \/ HostReorderLayouts
    \/ HostReorderNestedKeys
    \/ HostReorderTopKeys

Spec == Init /\ [][Next]_vars

----------------------------------------------------------------------------
(* Properties                                                              *)

Runs == DOMAIN probe
DataRuns == {r \in DOMAIN posted : posted[r].type = "IMAGETREND_DATA"}

ComposerOf(r) == probe[r].graph[1]
ControlsOf(r) == probe[r].graph[4]

\* t lists the elements of s in some order
IsPermutation(s, t) ==
    /\ Len(s) = Len(t)
    /\ \E p \in Permutations(DOMAIN s) : t = [i \in DOMAIN s |-> s[p[i]]]

\* Two resource tables that differ at most in the key order inside their
\* containers
SameUpToNestedOrder(a, b) ==
    /\ a.present = b.present
    /\ Len(a.entries) = Len(b.entries)
    /\ \A i \in DOMAIN a.entries :
          /\ a.entries[i].key = b.entries[i].key
          /\ a.entries[i].value.Elements = b.entries[i].value.Elements
          /\ IsPermutation(a.entries[i].value.children, b.entries[i].value.children)

\* Two graphs that differ at most in nested-key order and layout order
SameUpToOrder(g, h) ==
    /\ g[2] = h[2] /\ g[3] = h[3] /\ g[4] = h[4] /\ g[5] = h[5]
    /\ g[1].present = h[1].present
    /\ g[1].formFieldDictionary = h[1].formFieldDictionary
    /\ g[1].agencyLayouts.kind = h[1].agencyLayouts.kind
    /\ IsPermutation(g[1].agencyLayouts.items, h[1].agencyLayouts.items)
    /\ SameUpToNestedOrder(g[1].agencyResources, h[1].agencyResources)

\* C1: permuting the key order inside the containers of the resource
\* table, or the order of the layouts, leaves the primary digest of the
\* extraction result unchanged.
C1_OrderIndependentDigest ==
    \A h1 \in hashes : \A h2 \in hashes :
        SameUpToOrder(probe[h1.run].graph, probe[h2.run].graph) => h1.hash = h2.hash

FieldPairs(formData) ==
    [i \in DOMAIN formData.fields |->
        [id |-> formData.fields[i].id, bindingPath |-> formData.fields[i].bindingPath]]

GroupPairs(formData) ==
    [i \in DOMAIN formData.resourceGroups |->
        [id |-> formData.resourceGroups[i].id,
         count |-> Len(formData.resourceGroups[i].elements)]]

\* C2: two results with the same collection of field {id, bindingPath}
\* pairs and the same collection of resource-group {id, element count}
\* pairs have the same primary digest, whatever the order of their arrays
\* and whatever their other attributes.
C2_DigestOfPairCollections ==
    \A h1 \in hashes : \A h2 \in hashes :
        (/\ IsPermutation(FieldPairs(posted[h1.run].payload),
                          FieldPairs(posted[h2.run].payload))
         /\ IsPermutation(GroupPairs(posted[h1.run].payload),
                          GroupPairs(posted[h2.run].payload)))
        => h1.hash = h2.hash

\* C3: two extractions of an unchanged SourceGraph have equal primary
\* digests.
C3_IdempotentDigest ==
    \A h1 \in hashes : \A h2 \in hashes :
        probe[h1.run].graph = probe[h2.run].graph => h1.hash = h2.hash

\* Two digests of one graph, taken from payloads with different timestamps
\* and at least one field and one resource group
C3_Witness ==
    \E h1 \in hashes : \E h2 \in hashes :
        /\ h1.run # h2.run
        /\ probe[h1.run].graph = probe[h2.run].graph
        /\ posted[h1.run].payload.timestamp # posted[h2.run].payload.timestamp
        /\ posted[h1.run].payload.fields # <<>>
        /\ posted[h1.run].payload.resourceGroups # <<>>

\* field.bpID || field.bindingPathEntryId of a dictionary entry
EntryId(entry) == IF Truthy(entry.bpID) THEN entry.bpID ELSE entry.bindingPathEntryId

\* Positions of the dictionary entries of run r that carry id
EntriesWith(r, id) ==
    {i \in DOMAIN ComposerOf(r).formFieldDictionary.entries :
        EntryId(ComposerOf(r).formFieldDictionary.entries[i]) = id}

\* Positions in the visiting order of run r of the controls that carry id
VisitsWith(r, id) ==
    {k \in DOMAIN probe[r].order : ControlsOf(r)[probe[r].order[k]].BindingPathEntryID = id}

Last(positions) == CHOOSE k \in positions : \A j \in positions : j <= k

LastEntry(r, id) == ComposerOf(r).formFieldDictionary.entries[Last(EntriesWith(r, id))]
LastControl(r, id) == ControlsOf(r)[probe[r].order[Last(VisitsWith(r, id))]]

Descriptors(r, id) ==
    {i \in DOMAIN probe[r].fields[1] : probe[r].fields[1][i].id = id}
Descriptor(r, id) == probe[r].fields[1][CHOOSE i \in Descriptors(r, id) : TRUE]

FieldIds == {"F1", "F2"}

\* C4: an id that occurs in the dictionary and on a layout control has one
\* descriptor, with the dictionary's label and with bindingPath,
\* controlType, required, resourceGroupId and constraints of the layout
\* control (the one visited last).
C4_ReconciliationPrecedence ==
    \A r \in Runs : \A id \in FieldIds :
        (probe[r].fields # <<>> /\ EntriesWith(r, id) # {} /\ VisitsWith(r, id) # {})
        => /\ Cardinality(Descriptors(r, id)) = 1
           /\ LET d == Descriptor(r, id)
                  c == LastControl(r, id)
              IN /\ d.label = LastEntry(r, id).key
                 /\ d.bindingPath = c.BindingPath
                 /\ d.controlType = c.ControlType
                 /\ d.required = c.Required
                 /\ d.resourceGroupId = c.ResourceGroupID
                 /\ d.constraints.minOccurs = (IF c.IsRequired THEN 1 ELSE 0)
                 /\ d.constraints.nillable = Truthy(c.FormManagerNoDataNodeID)

\* Dictionary label "A" with layout bindingPath "/x/y" and no layout label:
\* the delivered descriptor has bindingPath "/x/y" and label "A"
C4_Witness ==
    \E r \in DataRuns :
        /\ EntriesWith(r, "F1") # {} /\ VisitsWith(r, "F1") # {}
        /\ LastEntry(r, "F1").key = "A"
        /\ LastControl(r, "F1").BindingPath = "/x/y"
        /\ LastControl(r, "F1").Label = UNDEFINED
        /\ \E i \in DOMAIN posted[r].payload.fields :
              /\ posted[r].payload.fields[i].id = "F1"
              /\ posted[r].payload.fields[i].bindingPath = "/x/y"
              /\ posted[r].payload.fields[i].label = "A"

\* The control types of the model whose name contains "grid" in any case
GridTypes == {"DataGrid", "gridview"}
\* The binding paths of the model that contain "[]"
ArrayPaths == {"/x[]/y"}

HasMultiValueSignal(control) ==
    \/ control.ControlType \in GridTypes
    \/ control.ControlType = "MultiSelect"
    \/ control.BindingPath \in ArrayPaths
    \/ control.IsRepeating
    \/ control.IsCollection
    \/ control.MaxCardinality > 1

\* C5: for a layout control with a binding-path identifier, maxOccurs is -1
\* exactly when one of the signals holds and 1 otherwise, whether or not
\* the id came from the dictionary.
C5_MultiValueClassification ==
    \A r \in Runs : \A id \in FieldIds :
        (probe[r].fields # <<>> /\ VisitsWith(r, id) # {})
        => /\ Descriptors(r, id) # {}
           /\ Descriptor(r, id).constraints.maxOccurs =
                 (IF HasMultiValueSignal(LastControl(r, id)) THEN -1 ELSE 1)

\* 'DataGrid' with no other signal, on an id known from the dictionary
C5_Witness ==
    \E r \in DataRuns :
        /\ EntriesWith(r, "F1") # {} /\ VisitsWith(r, "F1") # {}
        /\ LET c == LastControl(r, "F1") IN
              /\ c.ControlType = "DataGrid"
              /\ c.BindingPath = "/x/y"
              /\ ~c.IsRepeating /\ ~c.IsCollection /\ c.MaxCardinality = 0
        /\ Descriptor(r, "F1").constraints.maxOccurs = -1

\* The resource table run r read
ResourcesRead(r) ==
    IF probe[r].graph[2].present /\ probe[r].graph[2].Resources.present
    THEN probe[r].graph[2].Resources
    ELSE ComposerOf(r).agencyResources

TopEntries(r, id) ==
    {i \in DOMAIN ResourcesRead(r).entries : ResourcesRead(r).entries[i].key = id}

\* Positions of the top-level entries of run r that hold id as a nested key
NestedHolders(r, id) ==
    {i \in DOMAIN ResourcesRead(r).entries :
        \E j \in DOMAIN ResourcesRead(r).entries[i].value.children :
            ResourcesRead(r).entries[i].value.children[j].key = id}

First(positions) == CHOOSE k \in positions : \A j \in positions : k <= j

FirstNested(r, id) ==
    LET children == ResourcesRead(r).entries[First(NestedHolders(r, id))].value.children
    IN children[CHOOSE j \in DOMAIN children : children[j].key = id].value

\* The elements of a resource-table value as possible values, in source order
ValuesOf(value) ==
    IF value.Elements = <<>> THEN <<>>
    ELSE [i \in DOMAIN value.Elements[1] |->
            [id |-> value.Elements[1][i].Id, value |-> value.Elements[1][i].Value,
             text |-> value.Elements[1][i].Value,
             order |-> value.Elements[1][i].SortOrder]]

Selectable(entry) == entry.type \in {"SingleSelect", "MultiSelect"}

\* C6: a selectable dictionary field whose id is only a nested key resolves
\* to the first container entry found under that id and takes its elements
\* as possibleValues; when the id is also a top-level key the top-level
\* entry is used instead.
C6_NestedLookupFallback ==
    \A r \in Runs : \A id \in FieldIds :
        (/\ probe[r].fields # <<>>
         /\ EntriesWith(r, id) # {}
         /\ Selectable(LastEntry(r, id))
         /\ ResourcesRead(r).present)
        => /\ (TopEntries(r, id) = {} /\ NestedHolders(r, id) # {})
                => /\ Descriptor(r, id).resourceId = id
                   /\ Descriptor(r, id).possibleValues = ValuesOf(FirstNested(r, id))
           /\ TopEntries(r, id) # {}
                => /\ Descriptor(r, id).resourceId = id
                   /\ Descriptor(r, id).possibleValues =
                        ValuesOf(ResourcesRead(r).entries[First(TopEntries(r, id))].value)

\* The id is a nested key of two containers with different groups and no
\* top-level key; the values of the first container are delivered
C6_Witness ==
    \E r \in DataRuns :
        /\ EntriesWith(r, "F1") # {} /\ Selectable(LastEntry(r, "F1"))
        /\ TopEntries(r, "F1") = {}
        /\ Cardinality(NestedHolders(r, "F1")) = 2
        /\ \E i \in NestedHolders(r, "F1") :
              LET children == ResourcesRead(r).entries[i].value.children IN
              \E j \in DOMAIN children :
                  /\ children[j].key = "F1"
                  /\ ValuesOf(children[j].value) # ValuesOf(FirstNested(r, "F1"))
        /\ \E i \in DOMAIN posted[r].payload.fields :
              /\ posted[r].payload.fields[i].id = "F1"
              /\ posted[r].payload.fields[i].possibleValues # <<>>
              /\ posted[r].payload.fields[i].possibleValues = ValuesOf(FirstNested(r, "F1"))

\* {id, value, order} of possible values
IdValueOrder(values) ==
    [i \in DOMAIN values |->
        [id |-> values[i].id, value |-> values[i].value, order |-> values[i].order]]

\* Run r resolved the selectable dictionary field id to a group
ResolvesToGroup(r, id) ==
    /\ probe[r].fields # <<>>
    /\ EntriesWith(r, id) # {}
    /\ Selectable(LastEntry(r, id))
    /\ ResourcesRead(r).present
    /\ TopEntries(r, id) # {}
    /\ ResourcesRead(r).entries[First(TopEntries(r, id))].value.Elements # <<>>

\* C7: the F1 scenario yields exactly one descriptor, with id "F1",
\* resourceGroupId "F1" and the two possible values in order; in general a
\* selectable dictionary field that resolves to a group gets that group id
\* as resourceGroupId and the group's elements as possibleValues.
C7_ResolvedFieldDescriptor ==
    \A r \in Runs :
        /\ (/\ ComposerOf(r).present
            /\ ComposerOf(r).formFieldDictionary = ScenarioDictionary
            /\ ResourcesRead(r) = ScenarioResources
            /\ ComposerOf(r).agencyLayouts.kind = "absent")
           => /\ posted[r].type = "IMAGETREND_DATA"
              /\ Len(posted[r].payload.fields) = 1
              /\ posted[r].payload.fields[1].id = "F1"
              /\ IdValueOrder(posted[r].payload.fields[1].possibleValues)
                   = <<[id |-> "1", value |-> "Y", order |-> 0],
                       [id |-> "2", value |-> "N", order |-> 1]>>
              /\ Get(posted[r].payload.fields[1], "resourceGroupId") = "F1"
        /\ \A id \in FieldIds :
              (ResolvesToGroup(r, id) /\ VisitsWith(r, id) = {})
              => /\ Get(Descriptor(r, id), "resourceGroupId") = id
                 /\ Descriptor(r, id).possibleValues
                      = ValuesOf(ResourcesRead(r).entries[First(TopEntries(r, id))].value)

C9_NoStackExhaustion ==
    \A r \in Runs : probe[r].error # "RangeError"

\* C10: a failure in rule normalization, repeater discovery or operator
\* analysis leaves the result delivered with the computed fields and
\* resource groups; only a missing root container fails the extraction.
C10_StageFailureIsolated ==
    \A r \in Runs :
        /\ probe[r].failed \in {"formActions", "operators", "rules", "repeaters"}
           => /\ posted[r].type = "IMAGETREND_DATA"
              /\ posted[r].payload.fields = probe[r].fields[1]
              /\ posted[r].payload.resourceGroups = probe[r].resourceGroups[1]
        /\ posted[r].type = "IMAGETREND_ERROR" => ~ComposerOf(r).present

VmOf(r) == probe[r].graph[2]
EngineOf(r) == probe[r].graph[3]
GroupsOf(r) == probe[r].graph[5]

Delivered(r) == posted[r].type = "IMAGETREND_DATA"

\* Ids of the controls that run r visited
VisitedIds(r) ==
    {ControlsOf(r)[probe[r].order[k]].BindingPathEntryID : k \in DOMAIN probe[r].order}

\* Ids of the dictionary entries of run r
DictionaryIds(r) ==
    {EntryId(ComposerOf(r).formFieldDictionary.entries[i]) :
        i \in DOMAIN ComposerOf(r).formFieldDictionary.entries}

\* C11: with the form composer present, an absent piece of the graph is
\* never the reason of a failure and empties its output: no layouts gives
\* dictionary-only fields and no repeaters; no dictionary gives layout-only
\* fields; no resource table gives no resource groups and no resolved
\* enumeration; no FormActions gives formActions = null and operators =
\* null; no logic engine gives rules = [].
C11_AbsentPieceDegrades ==
    \A r \in Runs :
        ComposerOf(r).present =>
        LET composer == ComposerOf(r)
            fields == probe[r].fields[1]
        IN /\ probe[r].failed # "formComposer"
           /\ composer.agencyLayouts.kind = "absent"
              => /\ probe[r].failed # "repeaters"
                 /\ \A i \in DOMAIN fields : fields[i].id \in DictionaryIds(r)
                 /\ Delivered(r) => posted[r].payload.repeaters = <<>>
           /\ ~composer.formFieldDictionary.present
              => \A i \in DOMAIN fields : fields[i].id \in VisitedIds(r)
           /\ ~ResourcesOf(composer, VmOf(r)).present
              => /\ probe[r].resourceGroups[1] = <<>>
                 /\ \A i \in DOMAIN fields :
                       /\ "possibleValues" \in DOMAIN fields[i]
                          => fields[i].possibleValues = <<>>
                       /\ "resourceId" \in DOMAIN fields[i]
                          => fields[i].resourceId = NULL
           /\ ~FormActionsOf(VmOf(r)).present
              => /\ probe[r].failed \notin {"formActions", "operators"}
                 /\ Delivered(r) => /\ posted[r].payload.formActions = <<>>
                                    /\ posted[r].payload.operators = <<>>
           /\ ~EngineOf(r).present
              => /\ probe[r].failed # "rules"
                 /\ Delivered(r) => posted[r].payload.rules = <<>>
           /\ (Delivered(r) /\ posted[r].payload.fields = fields)
              \/ probe[r].failed \in {"formActions", "operators", "rules", "repeaters"}

\* A result was delivered from a graph that has a dictionary and nothing
\* else: no layouts, no resource table, no FormActions, no logic engine
C11_Witness ==
    \E r \in DataRuns :
        /\ ComposerOf(r).agencyLayouts.kind = "absent"
        /\ ComposerOf(r).formFieldDictionary.present
        /\ ~ResourcesOf(ComposerOf(r), VmOf(r)).present
        /\ ~FormActionsOf(VmOf(r)).present /\ ~EngineOf(r).present
        /\ posted[r].payload.fields # <<>>
        /\ posted[r].payload.repeaters = <<>>
        /\ posted[r].payload.operators = <<>>

\* The run of r's graph with the single layout object put into a list
AsOneElementList(r) ==
    extractFormMapping([ComposerOf(r) EXCEPT
                           !.agencyLayouts = LayoutArray(ComposerOf(r).agencyLayouts.items)],
                       VmOf(r), EngineOf(r), ControlsOf(r), GroupsOf(r), probe[r].now)

\* C12: when agencyLayouts is a single layout object and the extraction of
\* the list holding just that layout succeeds, the extraction succeeds too
\* and delivers the same fields and the same repeaters.
C12_SingleLayoutObject ==
    \A r \in Runs :
        (ComposerOf(r).present /\ ComposerOf(r).agencyLayouts.kind = "object"
           /\ AsOneElementList(r).message.type = "IMAGETREND_DATA")
        => /\ Delivered(r)
           /\ posted[r].payload.fields = AsOneElementList(r).message.payload.fields
           /\ posted[r].payload.repeaters = AsOneElementList(r).message.payload.repeaters

\* The actions of all paths of run r's FormActions
ActionsOf(r) ==
    IF \E i \in DOMAIN FormActionsOf(VmOf(r)).paths :
          FormActionsOf(VmOf(r)).paths[i].actions = <<>>
    THEN <<>>
    ELSE Flat(FormActionsOf(VmOf(r)).paths)

\* What analyzeOperators returns on the FormActions of run r
OperatorsOf(r) == analyzeOperators(GroupsOf(r), FormActionsOf(VmOf(r)))

EmptyProfile == [expression |-> <<>>, boolean |-> <<>>, calculation |-> <<>>]

\* C13: the operator analysis is null exactly when FormActions is absent;
\* for present FormActions in which no action has an expression group it
\* is three empty lists; a delivered payload carries that value.
C13_NullOnlyWhenAbsent ==
    \A r \in Runs :
        /\ Delivered(r) => posted[r].payload.operators = OperatorsOf(r).value
        /\ ~FormActionsOf(VmOf(r)).present => OperatorsOf(r) = Ok(<<>>)
        /\ (FormActionsOf(VmOf(r)).present /\ ~Threw(OperatorsOf(r)))
           => OperatorsOf(r).value # <<>>
        /\ (FormActionsOf(VmOf(r)).present
              /\ \A i \in DOMAIN FormActionsOf(VmOf(r)).paths :
                    /\ FormActionsOf(VmOf(r)).paths[i].actions # <<>>
                    /\ \A a \in Range(FormActionsOf(VmOf(r)).paths[i].actions[1]) :
                          a.ExpressionGroup = 0)
           => OperatorsOf(r) = Ok(<<EmptyProfile>>)

\* FormActions with an action that has no expression group were analyzed
\* and the payload carries three empty lists
C13_Witness ==
    \E r \in DataRuns :
        /\ FormActionsOf(VmOf(r)).present
        /\ ActionsOf(r) # <<>>
        /\ \A a \in Range(ActionsOf(r)) : a.ExpressionGroup = 0
        /\ posted[r].payload.operators = <<EmptyProfile>>

\* Groups reachable from the expression groups of run r's actions
RECURSIVE Closure(_, _)
Closure(r, reached) ==
    LET next == reached \cup
                {h \in Groups : \E g \in reached :
                    /\ GroupsOf(r)[g].ChildExpressionGroups # <<>>
                    /\ h \in Range(GroupsOf(r)[g].ChildExpressionGroups[1])}
    IN IF next = reached THEN reached ELSE Closure(r, next)

AnalyzedGroups(r) ==
    Closure(r, {a.ExpressionGroup : a \in Range(ActionsOf(r))} \ {0})

\* Comparisons of the analyzed groups of run r
AnalyzedComparisons(r) ==
    UNION {IF GroupsOf(r)[g].Expressions = <<>> THEN {}
           ELSE Range(GroupsOf(r)[g].Expressions[1]) : g \in AnalyzedGroups(r)}

\* The numbers among a set of property values
Codes(values) == {v.value : v \in {w \in values : w.type = "number"}}

BooleanCodes(r) == Codes({GroupsOf(r)[g].BooleanOperatorID : g \in AnalyzedGroups(r)})
ExpressionCodes(r) == Codes({c.ExpressionOperatorID : c \in AnalyzedComparisons(r)})
CalculationCodes(r) ==
    Codes({c.LeftTermGroup[1].CalculationOperatorID :
              c \in {d \in AnalyzedComparisons(r) : d.LeftTermGroup # <<>>}}
          \cup {c.RightTermGroup[1].CalculationOperatorID :
              c \in {d \in AnalyzedComparisons(r) : d.RightTermGroup # <<>>}})

\* Ascending without repetition, under the numeric comparison of the sort
StrictlyAscending(list) ==
    \A i, j \in DOMAIN list : i < j => ToNumber(list[i]) < ToNumber(list[j])

C15_DisjointIntegerSets ==
    \A r \in Runs :
        (~Threw(OperatorsOf(r)) /\ OperatorsOf(r).value # <<>>)
        => LET profile == OperatorsOf(r).value[1] IN
           /\ Range(profile.expression) \cap Range(profile.boolean) = {}
           /\ Range(profile.expression) \cap Range(profile.calculation) = {}
           /\ Range(profile.boolean) \cap Range(profile.calculation) = {}
           /\ \A v \in Range(profile.expression) \cup Range(profile.boolean)
                        \cup Range(profile.calculation) : v.type = "number"

\* C16: the descriptors of an extraction have pairwise different ids,
\* whatever the number of dictionary entries and controls carrying an id.
C16_UniqueFieldIds ==
    \A r \in Runs :
        /\ probe[r].fields # <<>>
           => \A i, j \in DOMAIN probe[r].fields[1] :
                 probe[r].fields[1][i].id = probe[r].fields[1][j].id => i = j
        /\ Delivered(r)
           => \A i, j \in DOMAIN posted[r].payload.fields :
                 posted[r].payload.fields[i].id = posted[r].payload.fields[j].id => i = j

\* A delivered result with one descriptor for an id that two dictionary
\* entries and two visited controls carry
C16_Witness ==
    \E r \in DataRuns : \E id \in FieldIds :
        /\ Cardinality(EntriesWith(r, id)) >= 2
        /\ Cardinality(VisitsWith(r, id)) >= 2
        /\ Cardinality({i \in DOMAIN posted[r].payload.fields :
                           posted[r].payload.fields[i].id = id}) = 1

NormalizedOf(r, g) == normalizeExpression(GroupsOf(r), g, 1)

\* C18: an absent expression group normalizes to null; a group without
\* Expressions normalizes to a node whose expressions is an empty list, a
\* group without ChildExpressionGroups to a node whose childGroups is an
\* empty list; the rules of a delivered payload carry these nodes.
C18_PartialShapesTolerated ==
    \A r \in Runs :
        /\ NormalizedOf(r, 0) = Ok(<<>>)
        /\ \A g \in Groups :
              ~Threw(NormalizedOf(r, g))
              => LET node == NormalizedOf(r, g).value[1] IN
                 /\ GroupsOf(r)[g].Expressions = <<>> => node.expressions = <<<<>>>>
                 /\ GroupsOf(r)[g].ChildExpressionGroups = <<>>
                    => node.childGroups = <<<<>>>>
        /\ Delivered(r)
           => \A i \in DOMAIN posted[r].payload.rules :
                 \E g \in Groups \cup {0} :
                    posted[r].payload.rules[i].expression = NormalizedOf(r, g).value

\* Expression groups of the engine's rules of run r, in the order of the
\* rules of the result: validations, then visibilities
RuleGroups(r) ==
    LET validations == EngineOf(r).indexedValidationActions.value
        visibilities == EngineOf(r).indexedVisibilityActions.value
        chosen(list, type) ==
            IF list = <<>> THEN <<>>
            ELSE SelectSeq(list[1], LAMBDA a : a.ActionType = type)
        rules == chosen(validations, "Validation") \o chosen(visibilities, "Visibility")
    IN IF EngineOf(r).present THEN [i \in DOMAIN rules |-> rules[i].ExpressionGroup]
       ELSE <<>>

\* C19: in every comparison of a delivered rule, leftTerm shows the first
\* term of the left term group and nothing of the later ones, and
\* rightTerm shows the values of all right terms in their order together
\* with the calculation operator of the right term group.
C19_FirstLeftAllRight ==
    \A r \in DataRuns :
        /\ Len(posted[r].payload.rules) = Len(RuleGroups(r))
        /\ \A i \in DOMAIN posted[r].payload.rules :
              LET g == RuleGroups(r)[i]
                  node == posted[r].payload.rules[i].expression
              IN (g # 0 /\ GroupsOf(r)[g].Expressions # <<>>)
                 => \A k \in DOMAIN GroupsOf(r)[g].Expressions[1] :
                       LET exp == GroupsOf(r)[g].Expressions[1][k]
                           out == node[1].expressions[1][k]
                       IN /\ (exp.LeftTermGroup # <<>>
                                /\ exp.LeftTermGroup[1].Terms # <<>>
                                /\ exp.LeftTermGroup[1].Terms[1] # <<>>)
                             => out.leftTerm =
                                  <<[fieldId |-> exp.LeftTermGroup[1].Terms[1][1].BindingPathEntryID,
                                     path |-> UNDEFINED,
                                     value |-> exp.LeftTermGroup[1].Terms[1][1].Value]>>
                          /\ (exp.RightTermGroup # <<>>
                                /\ exp.RightTermGroup[1].Terms # <<>>)
                             => out.rightTerm =
                                  <<[values |-> [j \in DOMAIN exp.RightTermGroup[1].Terms[1] |->
                                                   exp.RightTermGroup[1].Terms[1][j].Value],
                                     operator |-> exp.RightTermGroup[1].CalculationOperatorID]>>

\* A delivered rule whose comparison has two left terms and two right
\* terms: leftTerm carries the first left value, rightTerm both right values
C19_Witness ==
    \E r \in DataRuns : \E i \in DOMAIN posted[r].payload.rules :
        LET g == RuleGroups(r)[i] IN
        /\ g # 0 /\ GroupsOf(r)[g].Expressions # <<>>
        /\ \E k \in DOMAIN GroupsOf(r)[g].Expressions[1] :
              /\ Len(GroupsOf(r)[g].Expressions[1][k].LeftTermGroup[1].Terms[1]) = 2
              /\ posted[r].payload.rules[i].expression[1].expressions[1][k].leftTerm[1].value = "a"
              /\ posted[r].payload.rules[i].expression[1].expressions[1][k].rightTerm[1].values
                   = <<"c", "d">>
              /\ posted[r].payload.rules[i].expression[1].expressions[1][k].rightTerm[1].operator
                   = NumberValue(2)

\* Controls that hang directly on the layouts, forms and panels of run r
RootControls(r) ==
    LET layouts == Range(ComposerOf(r).agencyLayouts.items)
        forms == UNION {Range(l.Forms) : l \in layouts}
        panels == UNION {Range(l.Panels) : l \in layouts}
                     \cup UNION {Range(f.Panels) : f \in forms}
    IN UNION {Range(l.Controls) : l \in layouts}
       \cup UNION {Range(f.Controls) : f \in forms}
       \cup UNION {Range(q.Controls) : q \in panels}

\* Controls of the hierarchy of run r: the root controls and their descendants
RECURSIVE Descendants(_, _)
Descendants(r, reached) ==
    LET next == reached \cup UNION {Range(ControlsOf(r)[n].Controls) : n \in reached}
    IN IF next = reached THEN reached ELSE Descendants(r, next)

HierarchyControls(r) == Descendants(r, RootControls(r))

IsRepeater(node) == node.IsRepeating \/ node.ControlType = "Repeater"

\* Binding ids of the immediate child controls of a node
ChildBindings(r, node) ==
    [i \in DOMAIN node.Controls |-> ControlsOf(r)[node.Controls[i]].BindingPathEntryID]

\* C20: the repeaters of a delivered result are the layouts and the
\* controls of the hierarchy (under layouts, forms, panels and other
\* controls) that are flagged repeating or are of type Repeater, one
\* descriptor each, and a descriptor's childBindings are the binding ids of
\* the node's immediate child controls.
C20_RepeaterDiscovery ==
    \A r \in DataRuns :
        LET repeaters == posted[r].payload.repeaters
            layouts == ComposerOf(r).agencyLayouts.items
            flaggedLayouts == {i \in DOMAIN layouts : IsRepeater(layouts[i])}
            flaggedControls == {n \in HierarchyControls(r) : IsRepeater(ControlsOf(r)[n])}
        IN /\ Len(repeaters) = Cardinality(flaggedLayouts) + Cardinality(flaggedControls)
           /\ \A n \in flaggedControls :
                 \E i \in DOMAIN repeaters :
                    repeaters[i].childBindings = ChildBindings(r, ControlsOf(r)[n])
           /\ \A i \in DOMAIN repeaters :
                 \/ \E n \in flaggedControls :
                       repeaters[i].childBindings = ChildBindings(r, ControlsOf(r)[n])
                 \/ \E k \in flaggedLayouts :
                       repeaters[i].childBindings = ChildBindings(r, layouts[k])

----------------------------------------------------------------------------
(* Background service worker: SecureTokenStorage (hash-generator.ts:       *)
(* 114-213), OktaAuth (auth.ts:5-197), ApiClient (api-client.ts:5-282),    *)
(* CompanyCache (part_005), the message handlers of part_002, the content  *)
(* script (part_003) and the popup (part_000).                             *)
(*                                                                         *)
(* Every call of an async entry point is a record in calls.  Its pc names  *)
(* the await it is suspended at; one step performs the awaited operation   *)
(* and runs the synchronous code that follows, up to the next await.       *)
(* Calls interleave at their awaits only.  Tokens, states, verifiers and   *)
(* codes are numbered; 0 stands for a missing value (undefined or null).   *)

LastOf(seq) == seq[Len(seq)]

SetLast(seq, v) == [seq EXCEPT ![Len(seq)] = v]

\* The keys in the order clearTokens removes them (187-191)
ClearOrder == <<"access_token", "refresh_token", "id_token", "token_expiry", "user_info">>

\* The points of time a behaviour passes through, in milliseconds
Instants == {0, 1000, ExpiryBuffer + 1001}

\* expires_in of a token response, in seconds
ExpiresIn == {300, 3600}

\* A TokenResponse (types/auth.ts:1-8); refresh_token and id_token are optional
TokenResponse(access, refresh, id, expiresIn) ==
    [access_token |-> access, refresh_token |-> refresh, id_token |-> id,
     expires_in |-> expiresIn]

NoTokens == TokenResponse(0, 0, 0, 0)

\* An ApiResponse (types/auth.ts:24-29); wrapped is FALSE for the JSON body
\* that the retry path of makeRequest returns as it is
ApiResponse(success, data, error, wrapped) ==
    [success |-> success, data |-> data, error |-> error, wrapped |-> wrapped]

NoResponse == ApiResponse(FALSE, 0, "none", TRUE)

Failure(error) == ApiResponse(FALSE, 0, error, TRUE)

\* What a handler answers to its message
Reply(success, status, error) == [success |-> success, status |-> status, error |-> error]

NoReply == Reply(FALSE, "none", "none")

\* The record of one makeRequest call: the tokens getAccessToken returned
\* to it, the bearer and the status of each request it sent, and the
\* refresh requests sent on its behalf after a 401
ApiCall(path) ==
    [path |-> path, tokens |-> <<>>, sent |-> <<>>, statuses |-> <<>>,
     refreshesAfter401 |-> 0]

\* The call has returned to the runtime
IsDone(call) == call.pc \in {"done", "answered"}

\* if (expiry && Date.now() > (expiry - 300000)) (hash-generator.ts:140)
InBuffer(expiry, now) == expiry # 0 /\ now > expiry - ExpiryBuffer

\* The locals of withRetry (part_007:12-19) with what it did: the outcome
\* of each attempt, the argument of each setTimeout and the arguments of
\* each onRetry
NoRetry ==
    [maxAttempts |-> 0, delay |-> 0, backoff |-> FALSE, onRetry |-> FALSE,
     attempt |-> 0, lastError |-> 0, outcomes |-> <<>>, waits |-> <<>>,
     onRetryCalls |-> <<>>, value |-> 0, rejected |-> 0]

\* A call of an entry point, suspended at its first await
NewCall(op, pc, stack, data) ==
    [op |-> op, pc |-> pc, stack |-> stack, data |-> data,
     token |-> 0, refreshToken |-> 0, tokens |-> NoTokens,
     expiresAt |-> 0, removing |-> 1, extractionTime |-> 0, company |-> 0,
     ret |-> 0, authenticated |-> FALSE, response |-> NoResponse,
     result |-> NoReply, push |-> FALSE,
     seen |-> <<>>, refreshes |-> <<>>, apiCalls |-> <<>>, effects |-> {},
     cacheReads |-> <<>>,
     companySession |-> NoCompanySession, isCurrent |-> FALSE,
     sessionReads |-> <<>>, sessionWrites |-> <<>>,
     retry |-> NoRetry,
     began |-> [finished |-> {i \in DOMAIN calls : IsDone(calls[i])},
                hasToken |-> session.access_token # 0,
                inBuffer |-> InBuffer(session.token_expiry, dateNow),
                refreshValid |-> session.refresh_token \in idp.valid]]

NoData == [extraction |-> 0, url |-> "none", via |-> "none"]

CallGetAccessToken(th, continuation) ==
    [th EXCEPT !.stack = <<continuation>> \o @, !.pc = "getAccessToken.token"]

\* makeRequest(path, options) up to its first await (12)
CallMakeRequest(th, continuation, path) ==
    CallGetAccessToken([th EXCEPT !.stack = <<continuation>> \o @,
                                  !.apiCalls = Append(@, ApiCall(path))],
                       "makeRequest.token")

\* fetch(url, {headers: {Authorization: `Bearer ${token}`}}) of makeRequest
\* (21-28, 36-43): the request leaves with this bearer
SendApiRequest(th, bearer, pc) ==
    [th EXCEPT !.pc = pc,
               !.apiCalls = SetLast(@, [LastOf(@) EXCEPT !.sent = Append(@, bearer)])]

\* The token getAccessToken hands to makeRequest (12, 33)
TokenObtained(th) ==
    [th EXCEPT !.ret = 0,
               !.apiCalls = SetLast(@, [LastOf(@) EXCEPT !.tokens = Append(@, th.ret)])]

\* makeRequest after its first getAccessToken (12-28)
MakeRequestWithToken_SendsAnyway(th) ==
    SendApiRequest(TokenObtained(th), th.ret, "makeRequest.fetch")

MakeRequestWithToken(th) ==
    IF th.ret = 0
    THEN [TokenObtained(th) EXCEPT !.pc = "return",
                                   !.response = Failure("Not authenticated")]
    ELSE SendApiRequest(TokenObtained(th), th.ret, "makeRequest.fetch")

\* makeRequest after the getAccessToken that follows a 401 (33-53)
MakeRequestWithNewToken(th) ==
    IF th.ret # 0
    THEN SendApiRequest(TokenObtained(th), th.ret, "makeRequest.retry")
    ELSE [TokenObtained(th) EXCEPT !.pc = "return",
                                   !.response = Failure("Authentication expired")]

\* handleFormMapping that stores and sends whatever isAuthenticated said
FormMappingAfterAuth_Unchecked(th, now) ==
    [th EXCEPT !.pc = "handleFormMapping.setTime", !.push = TRUE,
               !.extractionTime = now, !.effects = @ \cup {"extractionHistory"}]

\* handleFormMapping after isAuthenticated (570-599)
FormMappingAfterAuth(th, now) ==
    IF ~th.authenticated
    THEN [th EXCEPT !.pc = "return",
                    !.result = Reply(FALSE, "Authentication required",
                                     "Please sign in to send data")]
    ELSE [th EXCEPT !.pc = "handleFormMapping.setTime", !.push = TRUE,
                    !.extractionTime = now, !.effects = @ \cup {"extractionHistory"}]

\* sendFormMapping after lookupCompanyByURL (124-171)
SendFormMappingAfterLookup(th) ==
    IF ~th.response.success \/ th.response.data = 0
    THEN [th EXCEPT !.pc = "return",
                    !.response = Failure(IF th.response.error # "none"
                                         THEN th.response.error
                                         ELSE "No company registered")]
    ELSE CallMakeRequest([th EXCEPT !.company = th.response.data],
                         "sendFormMapping.response", "ingest")

\* handleFormMapping after sendFormMapping (607-627)
FormMappingAfterApi(th) ==
    [th EXCEPT !.pc = "return", !.response = NoResponse, !.company = 0,
               !.result = Reply(th.response.success,
                                IF th.response.success THEN "Data sent successfully"
                                ELSE "API request failed",
                                th.response.error)]

\* handleCompanyLookup after lookupCompanyByURL (part_002:462-481): a
\* result without success is thrown to the catch of the LOOKUP_COMPANY
\* handler (415-426), a company of a URL with an agency code is stored
CompanyLookupAfterApi(th) ==
    IF ~th.response.success
    THEN [th EXCEPT !.pc = "return",
                    !.result = Reply(FALSE, "none",
                                     IF th.response.error # "none"
                                     THEN th.response.error
                                     ELSE "No company found for this URL")]
    ELSE IF extractAgencyCode(th.data.url) # "null" /\ th.response.data # 0
    THEN [th EXCEPT !.pc = "companyLookup.store", !.ret = th.response.data]
    ELSE [th EXCEPT !.pc = "return", !.ret = th.response.data,
                    !.result = Reply(TRUE, "none", "none")]

\* if (age > SESSION_TIMEOUT) with age = Date.now() - session.lastActivity
\* (auth.ts:226-227, part_002:789-794); the test that no session fails
SessionExpired_Never(lastActivity, now) == FALSE

SessionExpired(lastActivity, now) == now - lastActivity > SESSION_TIMEOUT

\* updateActivity after getActiveSession (auth.ts:251-257)
UpdateActivityAfterGet(th, now) ==
    IF th.companySession.companyId # 0
    THEN [th EXCEPT !.pc = "session.set", !.companySession.lastActivity = now]
    ELSE [th EXCEPT !.pc = "return"]

\* isCurrentAgency after getActiveSession (auth.ts:265-271): null === ''
\* is false
IsCurrentAgencyAfterGet(th) ==
    IF th.companySession.companyId = 0
    THEN [th EXCEPT !.pc = "return", !.isCurrent = FALSE]
    ELSE [th EXCEPT !.pc = "return",
                    !.isCurrent = (extractAgencyCode(th.data.url)
                                      = th.companySession.agencyCode)]

\* The synchronous code that runs when the awaited call returns to the
\* frame named continuation
Continue(continuation, th, now) ==
    CASE continuation = "reply" -> [th EXCEPT !.pc = "done"]
      [] continuation = "isAuthenticated" ->
            [th EXCEPT !.pc = "return", !.authenticated = (th.ret # 0), !.ret = 0]
      [] continuation = "handleFormMapping.auth" -> FormMappingAfterAuth(th, now)
      [] continuation = "makeRequest.token" -> MakeRequestWithToken(th)
      [] continuation = "makeRequest.newToken" -> MakeRequestWithNewToken(th)
      [] continuation = "refresh.stored" ->
            [th EXCEPT !.pc = "return", !.ret = th.tokens.access_token,
                       !.tokens = NoTokens, !.expiresAt = 0]
      [] continuation = "refresh.cleared" -> [th EXCEPT !.pc = "return", !.ret = 0]
      [] continuation = "logout.cleared" ->
            [th EXCEPT !.pc = "return", !.result = Reply(TRUE, "none", "none")]
      [] continuation = "exchange.stored" -> [th EXCEPT !.pc = "userinfo.fetch"]
      [] continuation = "validateAuth" ->
            [th EXCEPT !.pc = "return", !.response = NoResponse,
                       !.result = Reply(th.response.success, "none", th.response.error)]
      [] continuation = "lookup.response" ->
            IF th.response.success /\ th.response.data # 0
            THEN [th EXCEPT !.pc = "lookup.cacheSet"]
            ELSE [th EXCEPT !.pc = "return"]
      [] continuation = "sendFormMapping.lookup" -> SendFormMappingAfterLookup(th)
      [] continuation = "sendFormMapping.response" ->
            IF th.response.success
            THEN [th EXCEPT !.pc = "sendFormMapping.cacheSet"]
            ELSE [th EXCEPT !.pc = "return"]
      [] continuation = "handleFormMapping.api" -> FormMappingAfterApi(th)
      [] continuation = "companyLookup.result" -> CompanyLookupAfterApi(th)
      [] continuation = "updateActivity.session" -> UpdateActivityAfterGet(th, now)
      [] continuation = "isCurrentAgency.session" -> IsCurrentAgencyAfterGet(th)

\* Returns run through the waiting frames until the call reaches an await
RECURSIVE Settle(_, _)
Settle(th, now) ==
    IF th.pc # "return" THEN th
    ELSE Settle(Continue(Head(th.stack), [th EXCEPT !.stack = Tail(@)], now), now)

\* extractionHistory.push(extraction), keeping the last ten (593-598); the
\* push that never shifts
PushHistory_KeepsAll(history, extraction) == Append(history, extraction)

PushHistory(history, extraction) ==
    LET pushed == Append(history, extraction)
    IN IF Len(pushed) > HistoryLimit THEN Tail(pushed) ELSE pushed

\* A step of call t ends: its returns are run and the call is stored
Commit(t, th) ==
    /\ calls' = [calls EXCEPT ![t] = [Settle(th, dateNow) EXCEPT !.push = FALSE]]
    /\ extractionHistory' =
          IF Settle(th, dateNow).push
          THEN PushHistory(extractionHistory, th.data.extraction)
          ELSE extractionHistory

\* getAccessToken after both reads (135-145)
DecideOnExpiry(th, expiry, now) ==
    IF th.token = 0 THEN [th EXCEPT !.pc = "return", !.ret = 0]
    ELSE IF InBuffer(expiry, now)
    THEN [th EXCEPT !.pc = "refresh.refreshToken", !.token = 0]
    ELSE [th EXCEPT !.pc = "return", !.ret = th.token, !.token = 0]

\* What a call of getAccessToken read and when
Seen(th, expiry, now) ==
    IF th.op = "getAccessToken"
    THEN [th EXCEPT !.seen = Append(@, [token |-> th.token, expiry |-> expiry, now |-> now])]
    ELSE th

\* How a refresh attempt of a call of getAccessToken ended
Refreshed(th, outcome) ==
    IF th.op = "getAccessToken"
    THEN [th EXCEPT !.refreshes = Append(@, outcome), !.refreshToken = 0]
    ELSE [th EXCEPT !.refreshToken = 0]

\* The refresh request leaves (162-170); a makeRequest that waits for a new
\* token after a 401 counts it
NoteRefreshRequest(th) ==
    IF th.stack # <<>> /\ Head(th.stack) = "makeRequest.newToken"
    THEN [th EXCEPT !.apiCalls =
            SetLast(@, [LastOf(@) EXCEPT !.refreshesAfter401 = @ + 1])]
    ELSE th

\* storeTokens after the set of key (117-127): the next await, or the return
AfterStore(th, key, now) ==
    IF key = "access_token" /\ th.tokens.refresh_token # 0
    THEN [th EXCEPT !.pc = "store.refresh_token"]
    ELSE IF key \in {"access_token", "refresh_token"} /\ th.tokens.id_token # 0
    THEN [th EXCEPT !.pc = "store.id_token"]
    ELSE IF key = "token_expiry"
    THEN [th EXCEPT !.pc = "return"]
    ELSE [th EXCEPT !.pc = "store.token_expiry",
                    !.expiresAt = now + th.tokens.expires_in * 1000]

\* The value storeTokens writes under key
StoredValue(th, key) ==
    CASE key = "access_token" -> th.tokens.access_token
      [] key = "refresh_token" -> th.tokens.refresh_token
      [] key = "id_token" -> th.tokens.id_token
      [] key = "token_expiry" -> th.expiresAt

StoreKeyOf(pc) ==
    CASE pc = "store.access_token" -> "access_token"
      [] pc = "store.refresh_token" -> "refresh_token"
      [] pc = "store.id_token" -> "id_token"
      [] pc = "store.token_expiry" -> "token_expiry"

\* storeTokens(tokens) called with the frame to return to
CallStoreTokens(th, tokens, continuation) ==
    [th EXCEPT !.tokens = tokens, !.stack = <<continuation>> \o @,
               !.pc = "store.access_token"]

\* clearTokens() called with the frame to return to
CallClearTokens(th, continuation) ==
    [th EXCEPT !.stack = <<continuation>> \o @, !.pc = "clear", !.removing = 1]

\* The token endpoint issues the next token set; a rotating answer carries
\* a new refresh token and an id token and retires the refresh token used
Issue(used, rotated) ==
    [issued |-> idp.issued + 1,
     valid |-> IF rotated THEN (idp.valid \ {used}) \cup {idp.issued + 1} ELSE idp.valid]

----------------------------------------------------------------------------
(* Steps of the calls in flight                                            *)

\* await this.storage.get('access_token') (132)
GetStoredToken ==
    \E t \in DOMAIN calls :
    /\ calls[t].pc = "getAccessToken.token"
    /\ Commit(t, [calls[t] EXCEPT !.token = session.access_token,
                                  !.pc = "getAccessToken.expiry"])
    /\ UNCHANGED <<extractionVars, session, dateNow, oktaAuth, idp, localStorage,
                   contentScript, popup, mainWorld, runtimeMessages>>

\* await this.storage.get('token_expiry') and the checks that follow (133-145)
GetStoredExpiry ==
    \E t \in DOMAIN calls :
    /\ calls[t].pc = "getAccessToken.expiry"
    /\ Commit(t, DecideOnExpiry(Seen(calls[t], session.token_expiry, dateNow),
                                session.token_expiry, dateNow))
    /\ UNCHANGED <<extractionVars, session, dateNow, oktaAuth, idp, localStorage,
                   contentScript, popup, mainWorld, runtimeMessages>>

\* await this.storage.get('refresh_token') and the fetch call (153-170)
GetRefreshToken ==
    \E t \in DOMAIN calls :
    /\ calls[t].pc = "refresh.refreshToken"
    /\ Commit(t, IF session.refresh_token = 0
                 THEN [Refreshed(calls[t], "no refresh token") EXCEPT
                                       !.pc = "return", !.ret = 0]
                 ELSE NoteRefreshRequest(
                        [calls[t] EXCEPT !.pc = "refresh.fetch",
                                         !.refreshToken = session.refresh_token]))
    /\ UNCHANGED <<extractionVars, session, dateNow, oktaAuth, idp, localStorage,
                   contentScript, popup, mainWorld, runtimeMessages>>

\* The answer to the refresh request (162-183): a token set, a rejection of
\* a refresh token that is not valid, or a failure to reach the endpoint
RefreshResponse ==
    \E t \in DOMAIN calls :
    /\ calls[t].pc = "refresh.fetch"
    /\ \E outcome \in {"rotated", "minimal", "rejected", "failed"} :
       \E expiresIn \in ExpiresIn :
          /\ outcome \in {"rotated", "minimal"} => calls[t].refreshToken \in idp.valid
          /\ outcome = "rejected" => calls[t].refreshToken \notin idp.valid
          /\ IF outcome \in {"rotated", "minimal"}
             THEN /\ idp' = Issue(calls[t].refreshToken, outcome = "rotated")
                  /\ Commit(t, CallStoreTokens(
                        Refreshed(calls[t], outcome),
                        IF outcome = "rotated"
                        THEN TokenResponse(idp.issued + 1, idp.issued + 1,
                                           idp.issued + 1, expiresIn)
                        ELSE TokenResponse(idp.issued + 1, 0, 0, expiresIn),
                        "refresh.stored"))
             ELSE /\ idp' = idp
                  /\ Commit(t, CallClearTokens(
                        Refreshed(calls[t], outcome),
                        "refresh.cleared"))
    /\ UNCHANGED <<extractionVars, session, dateNow, oktaAuth, localStorage,
                   contentScript, popup, mainWorld, runtimeMessages>>

\* One await this.storage.set(key, value) of storeTokens (118-126)
StoreTokensStep ==
    \E t \in DOMAIN calls :
    /\ calls[t].pc \in {"store.access_token", "store.refresh_token",
                        "store.id_token", "store.token_expiry"}
    /\ session' = [session EXCEPT ![StoreKeyOf(calls[t].pc)] =
                                     StoredValue(calls[t], StoreKeyOf(calls[t].pc))]
    /\ Commit(t, AfterStore(calls[t], StoreKeyOf(calls[t].pc), dateNow))
    /\ UNCHANGED <<extractionVars, dateNow, oktaAuth, idp, localStorage,
                   contentScript, popup, mainWorld, runtimeMessages>>

\* One await this.storage.remove(key) of clearTokens (187-191)
ClearTokensStep ==
    \E t \in DOMAIN calls :
    /\ calls[t].pc = "clear"
    /\ session' = [session EXCEPT ![ClearOrder[calls[t].removing]] = 0]
    /\ Commit(t, IF calls[t].removing = Len(ClearOrder)
                 THEN [calls[t] EXCEPT !.pc = "return", !.removing = 1]
                 ELSE [calls[t] EXCEPT !.removing = @ + 1])
    /\ UNCHANGED <<extractionVars, dateNow, oktaAuth, idp, localStorage,
                   contentScript, popup, mainWorld, runtimeMessages>>

\* The answer to the first request of makeRequest (21-64); 0 stands for a
\* fetch that rejects
FetchResponse ==
    \E t \in DOMAIN calls :
    /\ calls[t].pc = "makeRequest.fetch"
    /\ \E status \in {0, 200, 401, 500} :
          Commit(t,
            CASE status = 200 ->
                    [calls[t] EXCEPT
                        !.pc = "return", !.response = ApiResponse(TRUE, 1, "none", TRUE),
                        !.apiCalls = SetLast(@, [LastOf(@) EXCEPT !.statuses = Append(@, status)])]
              [] status = 401 ->
                    CallGetAccessToken(
                        [calls[t] EXCEPT !.apiCalls =
                            SetLast(@, [LastOf(@) EXCEPT !.statuses = Append(@, status)])],
                        "makeRequest.newToken")
              [] OTHER ->
                    [calls[t] EXCEPT
                        !.pc = "return",
                        !.response = Failure(IF status = 0 THEN "Failed to fetch"
                                             ELSE "API request failed"),
                        !.apiCalls = SetLast(@, [LastOf(@) EXCEPT !.statuses = Append(@, status)])])
    /\ UNCHANGED <<extractionVars, session, dateNow, oktaAuth, idp, localStorage,
                   contentScript, popup, mainWorld, runtimeMessages>>

\* The answer to the retry of makeRequest (36-49): a body is returned as
\* it is, so its success property is whatever the backend put there
RetryResponse ==
    \E t \in DOMAIN calls :
    /\ calls[t].pc = "makeRequest.retry"
    /\ \E status \in {0, 200, 401, 500} : \E success \in BOOLEAN :
          /\ status # 200 => success = FALSE
          /\ Commit(t,
               [calls[t] EXCEPT
                  !.pc = "return",
                  !.response = CASE status = 200 ->
                                      ApiResponse(success, IF success THEN 1 ELSE 0,
                                                  "none", FALSE)
                                 [] status = 0 -> Failure("Failed to fetch")
                                 [] OTHER -> Failure("API request failed"),
                  !.apiCalls = SetLast(@, [LastOf(@) EXCEPT !.statuses = Append(@, status)])])
    /\ UNCHANGED <<extractionVars, session, dateNow, oktaAuth, idp, localStorage,
                   contentScript, popup, mainWorld, runtimeMessages>>

\* The answer to the token exchange (111-149): the endpoint accepts a code
\* with the verifier of the login the code was issued to
ExchangeResponse ==
    \E t \in DOMAIN calls :
    /\ calls[t].pc = "exchange.fetch"
    /\ \E ok \in BOOLEAN : \E expiresIn \in ExpiresIn :
          /\ ok => calls[t].data.code = calls[t].data.codeVerifier
          /\ ~ok => expiresIn = 300
          /\ IF ok
             THEN /\ idp' = [issued |-> idp.issued + 1,
                             valid |-> idp.valid \cup {idp.issued + 1}]
                  /\ Commit(t, CallStoreTokens(calls[t],
                        TokenResponse(idp.issued + 1, idp.issued + 1,
                                      idp.issued + 1, expiresIn),
                        "exchange.stored"))
             ELSE /\ idp' = idp
                  /\ Commit(t, [calls[t] EXCEPT
                        !.pc = "return",
                        !.result = Reply(FALSE, "none", "Token exchange failed")])
    /\ UNCHANGED <<extractionVars, session, dateNow, oktaAuth, localStorage,
                   contentScript, popup, mainWorld, runtimeMessages>>

\* The answer to the userinfo request (158-175); a failure is swallowed and
\* exchangeCodeForTokens clears the pending state (142-143)
UserInfoResponse ==
    \E t \in DOMAIN calls :
    /\ calls[t].pc = "userinfo.fetch"
    /\ \E ok \in BOOLEAN :
          IF ok
          THEN /\ Commit(t, [calls[t] EXCEPT !.pc = "userinfo.store"])
               /\ UNCHANGED oktaAuth
          ELSE /\ Commit(t, [calls[t] EXCEPT !.pc = "return", !.tokens = NoTokens,
                                             !.expiresAt = 0,
                                             !.result = Reply(TRUE, "none", "none")])
               /\ oktaAuth' = [oktaAuth EXCEPT !.pendingState = 0, !.pendingVerifier = 0]
    /\ UNCHANGED <<extractionVars, session, dateNow, idp, localStorage,
                   contentScript, popup, mainWorld, runtimeMessages>>

\* await this.storage.storeUserInfo(userInfo) (172, 194-196), then 142-143
StoreUserInfo ==
    \E t \in DOMAIN calls :
    /\ calls[t].pc = "userinfo.store"
    /\ session' = [session EXCEPT !.user_info = calls[t].tokens.access_token]
    /\ oktaAuth' = [oktaAuth EXCEPT !.pendingState = 0, !.pendingVerifier = 0]
    /\ Commit(t, [calls[t] EXCEPT !.pc = "return", !.tokens = NoTokens, !.expiresAt = 0,
                                  !.result = Reply(TRUE, "none", "none")])
    /\ UNCHANGED <<extractionVars, dateNow, idp, localStorage, contentScript, popup, mainWorld, runtimeMessages>>

\* await storage.set('lastExtractionTime', ...) and sendFormMapping up to
\* its first await (part_002:603-607, api-client.ts:113-124, 200-205)
SetLastExtractionTime ==
    \E t \in DOMAIN calls :
    /\ calls[t].pc = "handleFormMapping.setTime"
    /\ localStorage' = [localStorage EXCEPT !.lastExtractionTime = calls[t].extractionTime]
    /\ Commit(t, IF calls[t].data.url = "none"
                 THEN [calls[t] EXCEPT !.pc = "return",
                                       !.effects = @ \cup {"lastExtractionTime"},
                                       !.extractionTime = 0,
                                       !.stack = <<"handleFormMapping.api">> \o @,
                                       !.response = Failure("No form URL provided")]
                 ELSE [calls[t] EXCEPT !.pc = "lookup.cacheGet",
                                       !.effects = @ \cup {"lastExtractionTime"},
                                       !.extractionTime = 0,
                                       !.stack = <<"sendFormMapping.lookup",
                                                   "handleFormMapping.api">> \o @])
    /\ UNCHANGED <<extractionVars, session, dateNow, oktaAuth, idp, contentScript, popup, mainWorld, runtimeMessages>>

\* lookupCompanyByURL with no usable cache entry (214-228)
LookupUncached(th) ==
    IF extractAgencyCode(th.data.url) # "null"
    THEN CallMakeRequest(th, "lookup.response", "lookup")
    ELSE [th EXCEPT !.pc = "return",
                    !.response = Failure("Invalid ImageTrend URL")]

\* The key CompanyCache uses for url holds an entry: the model keeps the
\* entry of agency "a", and nothing is ever stored under another key
\* (part_005:23-31)
HasEntry(url) == extractAgencyCode(url) = "a" /\ localStorage.company # 0

\* cached.data of the stored entry (part_005:41, 50): undefined, 0, when the
\* entry was not stored as {data, cached_at}
CachedData == IF localStorage.wrapped THEN localStorage.company ELSE 0

\* What CompanyCache.get found and what it hands back
CacheRead(th, returned) ==
    [th EXCEPT !.cacheReads =
        Append(@, [found |-> HasEntry(th.data.url),
                   company |-> localStorage.company,
                   wrapped |-> localStorage.wrapped,
                   cached_at |-> localStorage.cached_at,
                   now |-> dateNow, returned |-> returned,
                   removed |-> FALSE])]

\* if (age > CACHE_DURATION) with age = Date.now() - cached.cached_at
\* (part_005:42-45); the test that lets every entry through
Expired_Never(cached_at, now) == FALSE

Expired(cached_at, now) == now - cached_at > CACHE_DURATION

\* await cache.get(url) up to its await or return (part_005:33-51), and the
\* if (cached) of lookupCompanyByURL (api-client.ts:205-212)
CacheGet ==
    \E t \in DOMAIN calls :
    /\ calls[t].pc = "lookup.cacheGet"
    /\ Commit(t,
         IF ~HasEntry(calls[t].data.url)
         THEN LookupUncached(CacheRead(calls[t], 0))
         ELSE IF Expired(localStorage.cached_at, dateNow)
         THEN [CacheRead(calls[t], 0) EXCEPT !.pc = "lookup.cacheRemove"]
         ELSE IF CachedData = 0
         THEN LookupUncached(CacheRead(calls[t], 0))
         ELSE [CacheRead(calls[t], CachedData) EXCEPT
                               !.pc = "return",
                               !.response = ApiResponse(TRUE, CachedData,
                                                        "none", TRUE)])
    /\ UNCHANGED <<extractionVars, session, dateNow, oktaAuth, idp, localStorage,
                   contentScript, popup, mainWorld, runtimeMessages>>

\* await chrome.storage.local.remove(key) of an expired entry (part_005:45-48)
CacheRemove ==
    \E t \in DOMAIN calls :
    /\ calls[t].pc = "lookup.cacheRemove"
    /\ localStorage' = [localStorage EXCEPT !.company = 0, !.cached_at = 0,
                                            !.wrapped = FALSE]
    /\ Commit(t, LookupUncached([calls[t] EXCEPT !.cacheReads =
                    SetLast(@, [LastOf(@) EXCEPT !.removed = TRUE])]))
    /\ UNCHANGED <<extractionVars, session, dateNow, oktaAuth, idp, contentScript, popup, mainWorld, runtimeMessages>>

\* await cache.set(url, data) of lookupCompanyByURL (230-233) and of
\* sendFormMapping (173-181), which counts the extraction
CacheSet ==
    \E t \in DOMAIN calls :
    /\ calls[t].pc \in {"lookup.cacheSet", "sendFormMapping.cacheSet"}
    /\ localStorage' =
          [localStorage EXCEPT
              !.company = IF calls[t].pc = "lookup.cacheSet"
                          THEN calls[t].response.data
                          ELSE calls[t].company + 1,
              !.cached_at = dateNow,
              !.wrapped = TRUE]
    /\ Commit(t, [calls[t] EXCEPT !.pc = "return"])
    /\ UNCHANGED <<extractionVars, session, dateNow, oktaAuth, idp, contentScript, popup, mainWorld, runtimeMessages>>

----------------------------------------------------------------------------
(* Entry points                                                            *)

\* Date.now() moves on
Tick ==
    /\ \E later \in Instants : later > dateNow /\ dateNow' = later
    /\ UNCHANGED <<extractionVars, session, oktaAuth, calls, idp, extractionHistory,
                   localStorage, contentScript, popup, mainWorld, runtimeMessages>>

\* A caller awaits oktaAuth.getAccessToken() (auth.ts:183-185)
GetAccessToken ==
    /\ Len(calls) < MaxCalls
    /\ calls' = Append(calls, NewCall("getAccessToken", "getAccessToken.token",
                                      <<"reply">>, NoData))
    /\ UNCHANGED <<extractionVars, session, dateNow, oktaAuth, idp, extractionHistory,
                   localStorage, contentScript, popup, mainWorld, runtimeMessages>>

\* LOGOUT: oktaAuth.logout() up to the first remove (auth.ts:178-181)
Logout ==
    /\ Len(calls) < MaxCalls
    /\ calls' = Append(calls, NewCall("logout", "clear",
                                      <<"logout.cleared", "reply">>, NoData))
    /\ UNCHANGED <<extractionVars, session, dateNow, oktaAuth, idp, extractionHistory,
                   localStorage, contentScript, popup, mainWorld, runtimeMessages>>

\* apiClient.validateAuth() up to the first await of makeRequest (193-198)
ValidateAuth ==
    /\ Len(calls) < MaxCalls
    /\ calls' = Append(calls,
                  CallMakeRequest(NewCall("validateAuth", "return", <<"reply">>, NoData),
                                  "validateAuth", "validate"))
    /\ UNCHANGED <<extractionVars, session, dateNow, oktaAuth, idp, extractionHistory,
                   localStorage, contentScript, popup, mainWorld, runtimeMessages>>

\* LOGIN: initiateLogin stores a new verifier and a new state (auth.ts:25-32)
InitiateLogin ==
    /\ oktaAuth.logins < MaxLogins
    /\ oktaAuth' = [oktaAuth EXCEPT !.pendingVerifier = oktaAuth.logins + 1,
                                    !.pendingState = oktaAuth.logins + 1,
                                    !.logins = @ + 1]
    /\ UNCHANGED <<extractionVars, session, dateNow, calls, idp, extractionHistory,
                   localStorage, contentScript, popup, mainWorld, runtimeMessages>>

\* handleAuthCallback decides whether the code is exchanged (auth.ts:71-93)
handleAuthCallback_IgnoresState(error, state, code) ==
    ~error /\ code # 0 /\ oktaAuth.pendingVerifier # 0

handleAuthCallback(error, state, code) ==
    IF error THEN FALSE
    ELSE IF state # oktaAuth.pendingState THEN FALSE
    ELSE IF code = 0 \/ oktaAuth.pendingVerifier = 0 THEN FALSE
    ELSE TRUE

\* The values a redirect URL can carry for state and for code: none (0), one
\* of this extension's logins, or one from elsewhere (-1)
RedirectValues == {-1} \cup 0..oktaAuth.logins

\* The callback of launchWebAuthFlow with a redirect URL (auth.ts:57-67),
\* up to the fetch of exchangeCodeForTokens (auth.ts:95-122)
AuthRedirect ==
    /\ oktaAuth.callbacks < oktaAuth.logins
    /\ \E error \in BOOLEAN : \E state \in RedirectValues : \E code \in RedirectValues :
          /\ oktaAuth' = [oktaAuth EXCEPT !.callbacks = @ + 1]
          /\ IF handleAuthCallback(error, state, code) /\ Len(calls) < MaxCalls
             THEN calls' = Append(calls,
                     NewCall("exchange", "exchange.fetch", <<"reply">>,
                             [code |-> code, codeVerifier |-> oktaAuth.pendingVerifier,
                              redirect |-> [error |-> error, state |-> state, code |-> code],
                              latest |-> oktaAuth.logins]))
             ELSE calls' = calls
    /\ UNCHANGED <<extractionVars, session, dateNow, idp, extractionHistory,
                   localStorage, contentScript, popup, mainWorld, runtimeMessages>>

\* The main world reports the form composer: IMAGETREND_DETECTED reaches
\* the content script (part_003:13-16, 71-74)
ImageTrendDetected ==
    /\ ~contentScript.isImageTrendReady
    /\ contentScript' = [contentScript EXCEPT !.isImageTrendReady = TRUE]
    /\ UNCHANGED <<extractionVars, session, dateNow, oktaAuth, calls, idp,
                   extractionHistory, localStorage, popup, mainWorld, runtimeMessages>>

\* handleExtract of the popup and the EXTRACT_ONLY handler of the content
\* script (part_000:124-161, part_003:122-141)
PopupHandleExtract ==
    /\ popup.isAuthenticated /\ popup.companyInfo /\ ~popup.isExtracting
    /\ popup.extracts < MaxExtractions
    /\ popup' = [popup EXCEPT !.extracts = @ + 1,
                              !.isExtracting = contentScript.isImageTrendReady]
    /\ IF contentScript.isImageTrendReady
       THEN /\ mainWorld' = [mainWorld EXCEPT !.requests = @ + 1]
            /\ contentScript' = [contentScript EXCEPT !.listeners = @ + 1]
       ELSE UNCHANGED <<mainWorld, contentScript>>
    /\ UNCHANGED <<extractionVars, session, dateNow, oktaAuth, calls, idp,
                   extractionHistory, localStorage, runtimeMessages>>

\* The runtime messages the IMAGETREND_DATA listener of the content script
\* sends (part_003:77-81): the listener that forwards each payload
MessagesOnData_Forwarding(payload) ==
    <<[type |-> "FORM_MAPPING", data |-> payload]>>

MessagesOnData(payload) == <<>>

\* The main world answers EXTRACT_MAPPING with IMAGETREND_DATA: the content
\* script stores the payload and every waiting EXTRACT_ONLY listener hands
\* it to the popup, which keeps it as pendingExtraction
\* (api-client.ts:339-341, part_003:77-81, 131-136, part_000:140-158)
OnImageTrendData ==
    /\ mainWorld.requests > 0
    /\ LET payload == [extraction |-> mainWorld.posts + 1, url |-> mainWorld.url] IN
       /\ mainWorld' = [mainWorld EXCEPT !.requests = @ - 1, !.posts = @ + 1]
       /\ contentScript' = [contentScript EXCEPT !.extractedData = payload,
                                                 !.listeners = 0]
       /\ popup' = IF contentScript.listeners > 0
                   THEN [popup EXCEPT !.pendingExtraction = payload,
                                      !.isExtracting = FALSE]
                   ELSE popup
       /\ runtimeMessages' = runtimeMessages \o MessagesOnData(payload)
    /\ UNCHANGED <<extractionVars, session, dateNow, oktaAuth, calls, idp,
                   extractionHistory, localStorage>>

\* The main world answers EXTRACT_MAPPING with IMAGETREND_ERROR, for which
\* the content script has no handler
OnImageTrendError ==
    /\ mainWorld.requests > 0
    /\ mainWorld' = [mainWorld EXCEPT !.requests = @ - 1]
    /\ UNCHANGED <<extractionVars, session, dateNow, oktaAuth, calls, idp, extractionHistory,
                   localStorage, contentScript, popup, runtimeMessages>>

\* handleSend of the popup (part_000:163-193) up to sendMessage
PopupHandleSend ==
    /\ popup.pendingExtraction.extraction # 0 /\ ~popup.isSending
    /\ \E confirmed \in BOOLEAN :
          IF confirmed
          THEN /\ runtimeMessages' = Append(runtimeMessages,
                      [type |-> "SEND_EXTRACTION", data |-> popup.pendingExtraction])
               /\ popup' = [popup EXCEPT !.confirmed = @ + 1, !.isSending = TRUE]
          ELSE UNCHANGED <<runtimeMessages, popup>>
    /\ UNCHANGED <<extractionVars, session, dateNow, oktaAuth, calls, idp,
                   extractionHistory, localStorage, contentScript, mainWorld>>

\* The discard button of the popup (part_000:533)
PopupDiscard ==
    /\ popup.pendingExtraction.extraction # 0
    /\ popup' = [popup EXCEPT !.pendingExtraction = NoPayload]
    /\ UNCHANGED <<extractionVars, session, dateNow, oktaAuth, calls, idp, extractionHistory,
                   localStorage, contentScript, mainWorld, runtimeMessages>>

\* onMessage of the background for FORM_MAPPING and SEND_EXTRACTION
\* (part_002:383-388, 407-413): handleFormMapping up to its first await
OnFormMappingMessage ==
    /\ runtimeMessages # <<>>
    /\ Head(runtimeMessages).type \in {"FORM_MAPPING", "SEND_EXTRACTION"}
    /\ Len(calls) < MaxCalls
    /\ runtimeMessages' = Tail(runtimeMessages)
    /\ calls' = Append(calls,
          NewCall("handleFormMapping", "getAccessToken.token",
                  <<"isAuthenticated", "handleFormMapping.auth", "reply">>,
                  [extraction |-> Head(runtimeMessages).data.extraction,
                   url |-> Head(runtimeMessages).data.url,
                   via |-> Head(runtimeMessages).type]))
    /\ UNCHANGED <<extractionVars, session, dateNow, oktaAuth, idp, extractionHistory,
                   localStorage, contentScript, popup, mainWorld>>

\* The response callback of handleSend (part_000:182-191)
PopupSendResponse ==
    \E t \in DOMAIN calls :
    /\ calls[t].op = "handleFormMapping" /\ calls[t].pc = "done"
    /\ calls[t].data.via = "SEND_EXTRACTION"
    /\ calls' = [calls EXCEPT ![t].pc = "answered"]
    /\ popup' = IF calls[t].result.success
                THEN [popup EXCEPT !.lastExtraction = popup.pendingExtraction.extraction,
                                   !.pendingExtraction = NoPayload, !.isSending = FALSE]
                ELSE [popup EXCEPT !.isSending = FALSE]
    /\ UNCHANGED <<extractionVars, session, dateNow, oktaAuth, idp, extractionHistory,
                   localStorage, contentScript, mainWorld, runtimeMessages>>

----------------------------------------------------------------------------
(* The background specification                                            *)

\* The session storage an earlier life of the service worker left behind:
\* the tokens of a login, with or without a refresh token
SignedIn(refresh) ==
    /\ session = [EmptySession EXCEPT
                     !.access_token = 1, !.refresh_token = refresh, !.id_token = 1,
                     !.token_expiry = ExpiryBuffer + 1000, !.user_info = 1]
    /\ idp = [issued |-> 1, valid |-> {1}]

\* No extraction runs in the main world
NoExtraction ==
    /\ EmptyPage
    /\ clock = 0
    /\ posted = <<>>
    /\ probe = <<>>
    /\ hashes = {}

AuthInit ==
    /\ NoExtraction
    /\ BackgroundIdle
    /\ mainWorld = MainWorld("agency")
    /\ \/ SignedOut
       \/ SignedIn(1)
       \/ SignedIn(0)

SendInit ==
    /\ NoExtraction
    /\ BackgroundIdle
    /\ \E url \in PageUrls : mainWorld = MainWorld(url)
    /\ \/ SignedOut
       \/ SignedIn(1)
       \/ SignedIn(0)

AuthNext ==
    \/ Tick
    \/ GetAccessToken
    \/ Logout
    \/ ValidateAuth
    \/ GetStoredToken
    \/ GetStoredExpiry
    \/ GetRefreshToken
    \/ RefreshResponse
    \/ StoreTokensStep
    \/ ClearTokensStep
    \/ FetchResponse
    \/ RetryResponse

\* Token storage and API client: calls of getAccessToken, logout and
\* validateAuth, interleaved at their awaits
AuthSpec == AuthInit /\ [][AuthNext]_vars

LoginNext ==
    \/ InitiateLogin
    \/ AuthRedirect
    \/ Logout
    \/ ExchangeResponse
    \/ StoreTokensStep
    \/ UserInfoResponse
    \/ StoreUserInfo
    \/ ClearTokensStep

\* The login flow: logins, redirects and token exchanges, with logout
\* alongside
LoginSpec == AuthInit /\ [][LoginNext]_vars

SendNext ==
    \/ Tick
    \/ ImageTrendDetected
    \/ PopupHandleExtract
    \/ OnImageTrendData
    \/ OnImageTrendError
    \/ PopupHandleSend
    \/ PopupDiscard
    \/ OnFormMappingMessage
    \/ GetStoredToken
    \/ GetStoredExpiry
    \/ GetRefreshToken
    \/ RefreshResponse
    \/ StoreTokensStep
    \/ ClearTokensStep
    \/ FetchResponse
    \/ RetryResponse
    \/ SetLastExtractionTime
    \/ CacheGet
    \/ CacheRemove
    \/ CacheSet
    \/ PopupSendResponse

\* Extraction and submission: the popup, the content script and
\* handleFormMapping of the background
SendSpec == SendInit /\ [][SendNext]_vars

----------------------------------------------------------------------------
(* Company lookup                                                          *)

\* The URLs the popup looks up: two forms of one agency and a page outside
\* any agency
CompanyUrls == {"agency", "agency/other", "plain"}

\* LOOKUP_COMPANY: handleCompanyLookup(message.url) up to the await inside
\* cache.get (part_002:415-418, 460-462; api-client.ts:204-205)
LookupCompany ==
    /\ Len(calls) < MaxCalls
    /\ \E url \in CompanyUrls :
          calls' = Append(calls, NewCall("lookupCompany", "lookup.cacheGet",
                                         <<"companyLookup.result", "reply">>,
                                         [NoData EXCEPT !.url = url]))
    /\ UNCHANGED <<extractionVars, session, dateNow, oktaAuth, idp, extractionHistory,
                   localStorage, contentScript, popup, mainWorld, runtimeMessages>>

\* await chrome.storage.local.set({[`company_agency_${agencyCode}`]:
\* {...result.data, cached_at: Date.now()}}) and the answer of the handler
\* (part_002:468-478, 418-419)
StoreCompanyLookup ==
    \E t \in DOMAIN calls :
    /\ calls[t].pc = "companyLookup.store"
    /\ localStorage' = [localStorage EXCEPT !.company = calls[t].ret,
                                            !.cached_at = dateNow,
                                            !.wrapped = FALSE]
    /\ Commit(t, [calls[t] EXCEPT !.pc = "return",
                                  !.result = Reply(TRUE, "none", "none")])
    /\ UNCHANGED <<extractionVars, session, dateNow, oktaAuth, idp, contentScript,
                   popup, mainWorld, runtimeMessages>>

CompanyInit ==
    /\ NoExtraction
    /\ BackgroundIdle
    /\ mainWorld = MainWorld("agency")
    /\ SignedIn(1)

CompanyNext ==
    \/ Tick
    \/ LookupCompany
    \/ CacheGet
    \/ CacheRemove
    \/ CacheSet
    \/ GetStoredToken
    \/ GetStoredExpiry
    \/ GetRefreshToken
    \/ RefreshResponse
    \/ StoreTokensStep
    \/ ClearTokensStep
    \/ FetchResponse
    \/ RetryResponse
    \/ StoreCompanyLookup

\* Company lookups of the popup, interleaved at their awaits
CompanySpec == CompanyInit /\ [][CompanyNext]_vars

----------------------------------------------------------------------------
(* The company session                                                     *)

SessionUrls == {"agency", "agency/other", "agency2", "plain"}

Companies == {1, 2}

\* Date.now() around the session timeout
SessionInstants == {0, SESSION_TIMEOUT, SESSION_TIMEOUT + 1, 2 * SESSION_TIMEOUT + 2}

\* The SessionData setActiveSession builds (auth.ts:236-243)
EstablishedSession(companyId, url, now) ==
    [companyId |-> companyId, companyName |-> companyId,
     agencyCode |-> IF extractAgencyCode(url) = "null" THEN ""
                    ELSE extractAgencyCode(url),
     url |-> url, establishedAt |-> now, lastActivity |-> now]

\* What a read of active_company_session found and what was made of it
SessionRead(th, returned) ==
    [th EXCEPT !.sessionReads =
        Append(@, [stored |-> session.active_company_session, now |-> dateNow,
                   returned |-> returned, removed |-> FALSE])]

SessionTick ==
    /\ \E later \in SessionInstants : later > dateNow /\ dateNow' = later
    /\ UNCHANGED <<extractionVars, session, oktaAuth, calls, idp, extractionHistory,
                   localStorage, contentScript, popup, mainWorld, runtimeMessages>>

\* sessionManager.getActiveSession() of the popup (part_000:53)
GetActiveSession ==
    /\ Len(calls) < MaxCalls
    /\ calls' = Append(calls, NewCall("getActiveSession", "session.get",
                                      <<"reply">>, NoData))
    /\ UNCHANGED <<extractionVars, session, dateNow, oktaAuth, idp, extractionHistory,
                   localStorage, contentScript, popup, mainWorld, runtimeMessages>>

\* sessionManager.updateActivity() (part_000:63)
UpdateActivity ==
    /\ Len(calls) < MaxCalls
    /\ calls' = Append(calls, NewCall("updateActivity", "session.get",
                                      <<"updateActivity.session", "reply">>, NoData))
    /\ UNCHANGED <<extractionVars, session, dateNow, oktaAuth, idp, extractionHistory,
                   localStorage, contentScript, popup, mainWorld, runtimeMessages>>

\* sessionManager.isCurrentAgency(currentTab.url) (part_000:54)
IsCurrentAgency ==
    /\ Len(calls) < MaxCalls
    /\ \E url \in SessionUrls :
          calls' = Append(calls, NewCall("isCurrentAgency", "session.get",
                                         <<"isCurrentAgency.session", "reply">>,
                                         [NoData EXCEPT !.url = url]))
    /\ UNCHANGED <<extractionVars, session, dateNow, oktaAuth, idp, extractionHistory,
                   localStorage, contentScript, popup, mainWorld, runtimeMessages>>

\* sessionManager.setActiveSession(company_id, company_name, currentTab.url)
\* up to its await (auth.ts:235-245; part_000:75-79, 304-308)
SetActiveSession ==
    /\ Len(calls) < MaxCalls
    /\ \E companyId \in Companies : \E url \in SessionUrls :
          calls' = Append(calls,
                     [NewCall("setActiveSession", "session.set", <<"reply">>,
                              [NoData EXCEPT !.url = url])
                        EXCEPT !.companySession =
                                  EstablishedSession(companyId, url, dateNow)])
    /\ UNCHANGED <<extractionVars, session, dateNow, oktaAuth, idp, extractionHistory,
                   localStorage, contentScript, popup, mainWorld, runtimeMessages>>

\* The cleanup-sessions alarm: cleanupExpiredSessions() up to its await
\* (part_002:766-772, 787-790)
CleanupExpiredSessions ==
    /\ Len(calls) < MaxCalls
    /\ calls' = Append(calls, NewCall("cleanupExpiredSessions", "cleanup.get",
                                      <<"reply">>, NoData))
    /\ UNCHANGED <<extractionVars, session, dateNow, oktaAuth, idp, extractionHistory,
                   localStorage, contentScript, popup, mainWorld, runtimeMessages>>

\* getActiveSession from the answer of chrome.storage.session.get to its
\* return or to the await of clearSession (auth.ts:218-232)
SessionGet ==
    \E t \in DOMAIN calls :
    /\ calls[t].pc = "session.get"
    /\ Commit(t,
         IF session.active_company_session.companyId = 0
         THEN [SessionRead(calls[t], NoCompanySession) EXCEPT
                  !.pc = "return", !.companySession = NoCompanySession]
         ELSE IF SessionExpired(session.active_company_session.lastActivity, dateNow)
         THEN [SessionRead(calls[t], NoCompanySession) EXCEPT !.pc = "session.remove"]
         ELSE [SessionRead(calls[t], session.active_company_session) EXCEPT
                  !.pc = "return",
                  !.companySession = session.active_company_session])
    /\ UNCHANGED <<extractionVars, session, dateNow, oktaAuth, idp, localStorage,
                   contentScript, popup, mainWorld, runtimeMessages>>

\* cleanupExpiredSessions from the answer of chrome.storage.session.get
\* (part_002:790-795)
CleanupGet ==
    \E t \in DOMAIN calls :
    /\ calls[t].pc = "cleanup.get"
    /\ Commit(t,
         IF /\ session.active_company_session.companyId # 0
            /\ SessionExpired(session.active_company_session.lastActivity, dateNow)
         THEN [SessionRead(calls[t], NoCompanySession) EXCEPT !.pc = "session.remove"]
         ELSE [SessionRead(calls[t], NoCompanySession) EXCEPT !.pc = "return"])
    /\ UNCHANGED <<extractionVars, session, dateNow, oktaAuth, idp, localStorage,
                   contentScript, popup, mainWorld, runtimeMessages>>

\* await chrome.storage.session.remove('active_company_session') of
\* clearSession and of the cleanup (auth.ts:228-229, 260-262; part_002:795)
SessionRemove ==
    \E t \in DOMAIN calls :
    /\ calls[t].pc = "session.remove"
    /\ session' = [session EXCEPT !.active_company_session = NoCompanySession]
    /\ Commit(t, [calls[t] EXCEPT
                    !.pc = "return", !.companySession = NoCompanySession,
                    !.sessionReads = SetLast(@, [LastOf(@) EXCEPT !.removed = TRUE])])
    /\ UNCHANGED <<extractionVars, dateNow, oktaAuth, idp, localStorage,
                   contentScript, popup, mainWorld, runtimeMessages>>

\* await chrome.storage.session.set({active_company_session: session}) of
\* setActiveSession and updateActivity (auth.ts:245-247, 254-256)
SessionSet ==
    \E t \in DOMAIN calls :
    /\ calls[t].pc = "session.set"
    /\ session' = [session EXCEPT !.active_company_session = calls[t].companySession]
    /\ Commit(t, [calls[t] EXCEPT
                    !.pc = "return",
                    !.sessionWrites = Append(@, [before |-> session.active_company_session,
                                                 written |-> calls[t].companySession,
                                                 now |-> dateNow])])
    /\ UNCHANGED <<extractionVars, dateNow, oktaAuth, idp, localStorage,
                   contentScript, popup, mainWorld, runtimeMessages>>

\* The popup of a signed-in user, with no company session or with one
\* established earlier
SessionInit ==
    /\ NoExtraction
    /\ BackgroundIdle
    /\ mainWorld = MainWorld("agency")
    /\ idp = [issued |-> 1, valid |-> {1}]
    /\ \E established \in {NoCompanySession, EstablishedSession(1, "agency", 0)} :
          session = [EmptySession EXCEPT
                        !.access_token = 1, !.refresh_token = 1, !.id_token = 1,
                        !.token_expiry = ExpiryBuffer + 1000, !.user_info = 1,
                        !.active_company_session = established]

SessionNext ==
    \/ SessionTick
    \/ GetActiveSession
    \/ UpdateActivity
    \/ IsCurrentAgency
    \/ SetActiveSession
    \/ CleanupExpiredSessions
    \/ SessionGet
    \/ CleanupGet
    \/ SessionRemove
    \/ SessionSet

\* The company session of the popup and its cleanup by the background
SessionSpec == SessionInit /\ [][SessionNext]_vars

----------------------------------------------------------------------------
(* withRetry                                                               *)

Delays == {1000, 250}

\* What fn() settles with: a value or an error, numbered from 1
FnOutcomes == [ok : BOOLEAN, value : {1, 2}]

\* backoff ? delay * Math.pow(2, attempt - 1) : delay (part_007:27); the
\* wait that doubles once too often
WaitTime_FromTwo(delay, backoff, attempt) ==
    IF backoff THEN delay * 2 ^ attempt ELSE delay

WaitTime(delay, backoff, attempt) ==
    IF backoff THEN delay * 2 ^ (attempt - 1) ELSE delay

\* withRetry(fn, {maxAttempts, delay, backoff, onRetry}) up to the await of
\* the first fn() (part_007:8-22)
WithRetry ==
    /\ Len(calls) < MaxRetries
    /\ \E maxAttempts \in 1..MaxAttempts : \E delay \in Delays :
       \E backoff \in BOOLEAN : \E onRetry \in BOOLEAN :
          calls' = Append(calls,
                     [NewCall("withRetry", "retry.fn", <<"reply">>, NoData)
                        EXCEPT !.retry = [NoRetry EXCEPT
                                             !.maxAttempts = maxAttempts,
                                             !.delay = delay,
                                             !.backoff = backoff,
                                             !.onRetry = onRetry,
                                             !.attempt = 1]])
    /\ UNCHANGED <<extractionVars, session, dateNow, oktaAuth, idp, extractionHistory,
                   localStorage, contentScript, popup, mainWorld, runtimeMessages>>

\* fn() settles: withRetry returns its value, or notes the error and waits,
\* or leaves the loop and throws lastError (part_007:21-40)
FnSettles ==
    \E t \in DOMAIN calls :
    /\ calls[t].pc = "retry.fn"
    /\ \E outcome \in FnOutcomes :
         LET r == [calls[t].retry EXCEPT !.outcomes = Append(@, outcome)]
         IN Commit(t,
              IF outcome.ok
              THEN [calls[t] EXCEPT !.pc = "return",
                                    !.retry = [r EXCEPT !.value = outcome.value]]
              ELSE IF r.attempt < r.maxAttempts
              THEN [calls[t] EXCEPT
                      !.pc = "retry.wait",
                      !.retry = [r EXCEPT
                         !.lastError = outcome.value,
                         !.onRetryCalls =
                             IF r.onRetry
                             THEN Append(@, [attempt |-> r.attempt,
                                             error |-> outcome.value])
                             ELSE @,
                         !.waits = Append(@, WaitTime(r.delay, r.backoff, r.attempt))]]
              ELSE [calls[t] EXCEPT
                      !.pc = "return",
                      !.retry = [r EXCEPT !.lastError = outcome.value,
                                          !.attempt = @ + 1,
                                          !.rejected = outcome.value]])
    /\ UNCHANGED <<extractionVars, session, dateNow, oktaAuth, idp, localStorage,
                   contentScript, popup, mainWorld, runtimeMessages>>

\* The timer of the wait fires: attempt++ and the next fn() (part_007:20-22, 34)
RetryTimer ==
    \E t \in DOMAIN calls :
    /\ calls[t].pc = "retry.wait"
    /\ Commit(t, [calls[t] EXCEPT !.pc = "retry.fn", !.retry.attempt = @ + 1])
    /\ UNCHANGED <<extractionVars, session, dateNow, oktaAuth, idp, localStorage,
                   contentScript, popup, mainWorld, runtimeMessages>>

RetryInit ==
    /\ NoExtraction
    /\ BackgroundIdle
    /\ mainWorld = MainWorld("agency")
    /\ SignedOut

RetryNext ==
    \/ WithRetry
    \/ FnSettles
    \/ RetryTimer

\* Calls of withRetry
RetrySpec == RetryInit /\ [][RetryNext]_vars

----------------------------------------------------------------------------
(* The MAIN-world script in a page                                         *)

\* One run of checkForImageTrend: checkCount.current, whether its interval
\* is set, the messages it posted and the listeners it installed
NewRun == [count |-> 0, polling |-> TRUE, posted |-> <<>>, installed |-> 0]

\* The interval callback that goes on polling after IMAGETREND_NOT_FOUND
CheckOnce_KeepsPolling(run, present) ==
    LET counted == [run EXCEPT !.count = @ + 1]
    IN IF present
       THEN [counted EXCEPT !.polling = FALSE,
                            !.posted = Append(@, "IMAGETREND_DETECTED"),
                            !.installed = @ + 1]
       ELSE IF counted.count >= CheckMax
       THEN [counted EXCEPT !.posted = Append(@, "IMAGETREND_NOT_FOUND")]
       ELSE counted

\* The interval callback of checkForImageTrend (api-client.ts:311-332)
CheckOnce(run, present) ==
    LET counted == [run EXCEPT !.count = @ + 1]
    IN IF present
       THEN [counted EXCEPT !.polling = FALSE,
                            !.posted = Append(@, "IMAGETREND_DETECTED"),
                            !.installed = @ + 1]
       ELSE IF counted.count >= CheckMax
       THEN [counted EXCEPT !.polling = FALSE,
                            !.posted = Append(@, "IMAGETREND_NOT_FOUND")]
       ELSE counted

\* injectMainWorldScript(tabId): imagetrendExtractor runs in the page and
\* starts checkForImageTrend (part_002:314-318, 401-405, 654-668;
\* api-client.ts:308-311, 939)
InjectMainWorldScript ==
    /\ Len(mainWorld.runs) < MaxInjections
    /\ mainWorld' = [mainWorld EXCEPT !.runs = Append(@, NewRun)]
    /\ UNCHANGED <<extractionVars, session, dateNow, oktaAuth, calls, idp,
                   extractionHistory, localStorage, contentScript, popup,
                   runtimeMessages>>

\* The page creates imagetrend.formComposer and ko
PageLoadsImageTrend ==
    /\ ~mainWorld.present
    /\ mainWorld' = [mainWorld EXCEPT !.present = TRUE]
    /\ UNCHANGED <<extractionVars, session, dateNow, oktaAuth, calls, idp,
                   extractionHistory, localStorage, contentScript, popup,
                   runtimeMessages>>

\* The interval of a run fires (api-client.ts:311-332); a detecting run
\* calls setupExtractionListener (335-344)
IntervalFires ==
    /\ \E i \in DOMAIN mainWorld.runs :
          /\ mainWorld.runs[i].polling
          /\ LET run == CheckOnce(mainWorld.runs[i], mainWorld.present)
             IN mainWorld' =
                  [mainWorld EXCEPT
                     !.runs[i] = run,
                     !.listeners = @ + run.installed - mainWorld.runs[i].installed,
                     !.windowMessages =
                         @ \o SubSeq(run.posted, Len(mainWorld.runs[i].posted) + 1,
                                     Len(run.posted))]
    /\ UNCHANGED <<extractionVars, session, dateNow, oktaAuth, calls, idp,
                   extractionHistory, localStorage, contentScript, popup,
                   runtimeMessages>>

\* The message listener of the content script receives IMAGETREND_DETECTED
\* or IMAGETREND_NOT_FOUND (part_003:69-87, 15-16)
OnDetectionMessage ==
    /\ mainWorld.windowMessages # <<>>
    /\ contentScript' =
          [contentScript EXCEPT !.isImageTrendReady =
              (Head(mainWorld.windowMessages) = "IMAGETREND_DETECTED")]
    /\ mainWorld' = [mainWorld EXCEPT !.windowMessages = Tail(@)]
    /\ UNCHANGED <<extractionVars, session, dateNow, oktaAuth, calls, idp,
                   extractionHistory, localStorage, popup, runtimeMessages>>

\* EXTRACT_ONLY: the content script posts EXTRACT_MAPPING (part_003:122-130)
PostExtractMapping ==
    /\ contentScript.isImageTrendReady
    /\ Len(mainWorld.extractRequests) < MaxExtractions
    /\ mainWorld' = [mainWorld EXCEPT !.extractRequests =
                        Append(@, [delivered |-> FALSE, extractions |-> 0,
                                   posts |-> <<>>])]
    /\ UNCHANGED <<extractionVars, session, dateNow, oktaAuth, calls, idp,
                   extractionHistory, localStorage, contentScript, popup,
                   runtimeMessages>>

\* The EXTRACT_MAPPING message is dispatched in the page: every listener
\* that setupExtractionListener installed runs extractFormMapping, which
\* posts IMAGETREND_DATA or IMAGETREND_ERROR (api-client.ts:335-344, 348-448)
DeliverExtractMapping ==
    /\ \E q \in DOMAIN mainWorld.extractRequests :
       \E type \in {"IMAGETREND_DATA", "IMAGETREND_ERROR"} :
          /\ ~mainWorld.extractRequests[q].delivered
          /\ mainWorld' =
                [mainWorld EXCEPT !.extractRequests[q] =
                    [delivered |-> TRUE, extractions |-> mainWorld.listeners,
                     posts |-> [k \in 1..mainWorld.listeners |-> type]]]
    /\ UNCHANGED <<extractionVars, session, dateNow, oktaAuth, calls, idp,
                   extractionHistory, localStorage, contentScript, popup,
                   runtimeMessages>>

\* A page with or without ImageTrend, before any injection
InjectInit ==
    /\ NoExtraction
    /\ BackgroundIdle
    /\ \E present \in BOOLEAN :
          mainWorld = [MainWorld("agency") EXCEPT !.present = present]
    /\ SignedIn(1)

InjectNext ==
    \/ InjectMainWorldScript
    \/ PageLoadsImageTrend
    \/ IntervalFires
    \/ OnDetectionMessage
    \/ PostExtractMapping
    \/ DeliverExtractMapping

\* Injections of the MAIN-world script into one page and the extraction
\* requests of the content script
InjectSpec == InjectInit /\ [][InjectNext]_vars

\* The same with timers that fire: a set interval is not left waiting
\* forever
InjectLiveSpec == InjectSpec /\ WF_vars(IntervalFires)

----------------------------------------------------------------------------
(* The extraction history                                                  *)

\* extractionHistory[extractionHistory.length - 1] || null, with 0 for null
\* (part_002:396-397)
LastExtractionReply(history) ==
    IF history = <<>> THEN 0 ELSE history[Len(history)]

\* The popup asks GET_LAST_EXTRACTION and keeps the answer
\* (part_000:119-121, part_002:395-399)
PopupGetLastExtraction ==
    /\ popup' = [popup EXCEPT
                    !.lastExtraction = LastExtractionReply(extractionHistory),
                    !.getLast = [asked |-> TRUE,
                                 reply |-> LastExtractionReply(extractionHistory),
                                 history |-> extractionHistory]]
    /\ popup' # popup
    /\ UNCHANGED <<extractionVars, session, dateNow, oktaAuth, calls, idp,
                   extractionHistory, localStorage, contentScript, mainWorld,
                   runtimeMessages>>

\* The numbers of extractions the service worker has stored before the
\* popup opens
EarlierSends == {0, HistoryLimit - 1, HistoryLimit}

\* The history after n earlier sends: extraction -1 is the latest of them
EarlierHistory(n) == [i \in 1..n |-> i - n - 1]

HistoryInit ==
    /\ NoExtraction
    /\ \E n \in EarlierSends : BackgroundWith(EarlierHistory(n))
    /\ mainWorld = MainWorld("agency")
    /\ SignedIn(1)

HistoryNext ==
    \/ PopupGetLastExtraction
    \/ Tick
    \/ ImageTrendDetected
    \/ PopupHandleExtract
    \/ OnImageTrendData
    \/ OnImageTrendError
    \/ PopupHandleSend
    \/ PopupDiscard
    \/ OnFormMappingMessage
    \/ GetStoredToken
    \/ GetStoredExpiry
    \/ GetRefreshToken
    \/ RefreshResponse
    \/ StoreTokensStep
    \/ ClearTokensStep
    \/ FetchResponse
    \/ RetryResponse
    \/ SetLastExtractionTime
    \/ CacheGet
    \/ CacheRemove
    \/ CacheSet
    \/ PopupSendResponse

\* Submissions of a signed-in user to a service worker that already holds
\* a history, with the popup asking for the last extraction
HistorySpec == HistoryInit /\ [][HistoryNext]_vars

----------------------------------------------------------------------------
(* Quick digest                                                            *)

\* The payload with its fields and its resource groups in reverse order
Reversed(items) == [i \in DOMAIN items |-> items[Len(items) + 1 - i]]

ReorderedPayload(formData) ==
    [formData EXCEPT !.fields = Reversed(formData.fields),
                     !.resourceGroups = Reversed(formData.resourceGroups)]

\* The payload with other labels, binding paths and constraints on its
\* fields and no elements in its resource groups
RedecoratedPayload(formData) ==
    [formData EXCEPT
        !.fields = [i \in DOMAIN formData.fields |->
                      [id |-> formData.fields[i].id, bindingPath |-> "/other",
                       label |-> "other", constraints |-> <<>>]],
        !.resourceGroups = [i \in DOMAIN formData.resourceGroups |->
                      [id |-> formData.resourceGroups[i].id, name |-> "other",
                       elements |-> <<>>]]]

\* Two results with the same form id, field count, field ids and
\* resource-group ids, in any order
SameQuickInputs(a, b) ==
    /\ a.formHierarchyCollectionId = b.formHierarchyCollectionId
    /\ Len(a.fields) = Len(b.fields)
    /\ IsPermutation(IdsOf(a.fields), IdsOf(b.fields))
    /\ IsPermutation(IdsOf(a.resourceGroups), IdsOf(b.resourceGroups))

\* C21: the quick digest depends only on the form id, the field count, the
\* field ids and the resource-group ids: two results that agree on these
\* have the same quick digest, whatever the order of their arrays and
\* whatever their labels, constraints, binding paths and element counts.
C21_QuickDigestInputs ==
    /\ \A h1 \in hashes : \A h2 \in hashes :
          SameQuickInputs(posted[h1.run].payload, posted[h2.run].payload)
          => h1.quick = h2.quick
    /\ \A h \in hashes :
          /\ generateQuickHash(ReorderedPayload(posted[h.run].payload)) = h.quick
          /\ generateQuickHash(RedecoratedPayload(posted[h.run].payload)) = h.quick

\* A quick digest of a result with two fields of different ids whose
\* reordered form is another array
C21_Witness ==
    \E h \in hashes :
        LET formData == posted[h.run].payload IN
        /\ Len(formData.fields) >= 2
        /\ formData.fields[1].id # formData.fields[2].id
        /\ ReorderedPayload(formData).fields # formData.fields
        /\ formData.resourceGroups # <<>>
        /\ h.quick # <<>>

----------------------------------------------------------------------------
(* API client and token storage                                            *)

\* The first request of the makeRequest call was answered with 401
Got401(call) == call.statuses # <<>> /\ call.statuses[1] = 401

\* A makeRequest call refreshed and retried with a new token after a 401,
\* or failed with 'Authentication expired' for want of a token
RefreshedAndRetried(t, call) ==
    /\ Len(call.sent) <= 2
    /\ (Got401(call) /\ Len(call.sent) = 2)
       => /\ call.refreshesAfter401 >= 1
          /\ call.sent[2] # call.sent[1]
    /\ (/\ Got401(call)
        /\ Len(call.tokens) = 2 /\ call.tokens[2] = 0
        /\ calls[t].op = "validateAuth" /\ IsDone(calls[t]))
       => /\ Len(call.sent) = 1
          /\ calls[t].result = Reply(FALSE, "none", "Authentication expired")

\* C22: after a 401 the client refreshes the access token and retries the
\* request once with the new token; when no token can be obtained the call
\* fails with 'Authentication expired'; no call sends more than two
\* requests.
C22_RefreshAndRetryOn401 ==
    \A t \in DOMAIN calls : \A k \in DOMAIN calls[t].apiCalls :
        RefreshedAndRetried(t, calls[t].apiCalls[k])


\* The calls of getAccessToken that began with an access token stored inside
\* the expiry buffer and a refresh token the token endpoint accepts
BeganRefreshable(t) ==
    /\ calls[t].op = "getAccessToken"
    /\ calls[t].began.hasToken
    /\ calls[t].began.inBuffer
    /\ calls[t].began.refreshValid

\* Calls t and u ran concurrently: neither had returned when the other began
Overlapping(t, u) ==
    /\ t < u
    /\ t \notin calls[u].began.finished

\* C23: when several getAccessToken calls run concurrently while the stored
\* token is inside the five-minute buffer and the refresh token was valid
\* when they began, and the token endpoint is reachable, then once all calls
\* have finished every caller has a non-null token and storage holds an
\* access token and a refresh token the endpoint accepts
C23_ConcurrentRefreshKeepsTokens ==
    \A t \in DOMAIN calls : \A u \in DOMAIN calls :
        (/\ BeganRefreshable(t) /\ BeganRefreshable(u) /\ Overlapping(t, u)
         /\ \A c \in DOMAIN calls :
               /\ calls[c].op = "getAccessToken"
               /\ IsDone(calls[c])
               /\ \A i \in DOMAIN calls[c].refreshes : calls[c].refreshes[i] # "failed")
        => /\ calls[t].ret # 0
           /\ calls[u].ret # 0
           /\ session.access_token # 0
           /\ session.refresh_token \in idp.valid

\* C24: once logout has completed, and every other call had begun before
\* logout was requested, none of access_token, refresh_token, id_token,
\* token_expiry and user_info is stored
C24_LogoutLeavesNothingStored ==
    \A t \in DOMAIN calls :
        (/\ calls[t].op = "logout" /\ IsDone(calls[t])
         /\ \A u \in DOMAIN calls : u <= t)
        => session = EmptySession

\* What a finished call of getAccessToken that read storage once decided on
ReadOnce(t) ==
    /\ calls[t].op = "getAccessToken"
    /\ IsDone(calls[t])
    /\ Len(calls[t].seen) = 1

\* C25: getAccessToken returns null when no access token is stored, returns
\* the stored token without a refresh while the expiry is more than five
\* minutes ahead, and attempts a refresh whenever the expiry is at most five
\* minutes ahead or past
C25_RefreshInsideFiveMinutes ==
    \A t \in DOMAIN calls :
        ReadOnce(t) =>
            LET read == calls[t].seen[1] IN
            /\ read.token = 0 => (calls[t].ret = 0 /\ calls[t].refreshes = <<>>)
            /\ (read.token # 0 /\ read.expiry - read.now > ExpiryBuffer)
                  => (calls[t].ret = read.token /\ calls[t].refreshes = <<>>)
            /\ (read.token # 0 /\ read.expiry # 0 /\ read.expiry - read.now <= ExpiryBuffer)
                  => calls[t].refreshes # <<>>

\* C26: when getAccessToken, running alone, finds the stored token inside
\* the expiry buffer and cannot refresh it (no refresh token, a rejected
\* refresh request or a failing one), it returns null and nothing of the
\* login remains stored
C26_FailedRefreshClearsLogin ==
    \A t \in DOMAIN calls :
        (/\ Len(calls) = 1
         /\ ReadOnce(t)
         /\ calls[t].refreshes # <<>>
         /\ calls[t].refreshes[1] \in {"no refresh token", "rejected", "failed"})
        => /\ calls[t].ret = 0
           /\ session = EmptySession

\* Every request of this makeRequest call left with the token getAccessToken
\* had just handed to the call, and no request left without one
BearerOfEachRequest(call) ==
    /\ Len(call.sent) <= Len(call.tokens)
    /\ \A i \in DOMAIN call.sent :
          /\ call.sent[i] # 0
          /\ call.sent[i] = call.tokens[i]

\* makeRequest got no access token
NoTokenObtained(call) == call.tokens # <<>> /\ call.tokens[1] = 0

\* C27: every request makeRequest sends carries as its bearer an access
\* token obtained for that call; when no access token is available no
\* request is sent and the call fails with 'Not authenticated'
C27_BearerOnEveryRequest ==
    \A t \in DOMAIN calls : \A k \in DOMAIN calls[t].apiCalls :
        /\ BearerOfEachRequest(calls[t].apiCalls[k])
        /\ NoTokenObtained(calls[t].apiCalls[k])
              => /\ calls[t].apiCalls[k].sent = <<>>
                 /\ calls[t].op = "validateAuth"
                       => /\ IsDone(calls[t])
                          /\ calls[t].result = Reply(FALSE, "none", "Not authenticated")

\* One validateAuth sent its request with the stored token and, after the
\* token could no longer be had, another failed without sending anything
C27_Witness ==
    \E t \in DOMAIN calls : \E u \in DOMAIN calls :
        /\ calls[t].op = "validateAuth" /\ calls[u].op = "validateAuth"
        /\ calls[t].apiCalls[1].sent = <<1>>
        /\ calls[t].apiCalls[1].tokens = <<1>>
        /\ NoTokenObtained(calls[u].apiCalls[1])
        /\ calls[u].apiCalls[1].sent = <<>>
        /\ calls[u].result = Reply(FALSE, "none", "Not authenticated")

----------------------------------------------------------------------------
(* Login flow                                                              *)

\* The token exchanges that were started
Exchanges == {t \in DOMAIN calls : calls[t].op = "exchange"}

\* The exchange answers a redirect without error whose state is the one of
\* the most recent initiateLogin, with a code, and uses that login's verifier
AnswersLatestLogin(data) ==
    /\ ~data.redirect.error
    /\ data.latest # 0
    /\ data.redirect.state = data.latest
    /\ data.redirect.code # 0
    /\ data.code = data.redirect.code
    /\ data.codeVerifier = data.latest

\* C28: tokens are exchanged and stored only in response to a redirect whose
\* state equals the state generated by the most recent initiateLogin, using
\* that login's code verifier; while no such redirect has arrived (every
\* redirect so far carried an error, another or no state, or no code) token
\* storage keeps the value it had
C28_ExchangeOnlyForPendingState ==
    /\ \A t \in Exchanges : AnswersLatestLogin(calls[t].data)
    /\ (Exchanges = {} /\ \A t \in DOMAIN calls : calls[t].op # "logout")
          => \/ session = EmptySession
             \/ \E refresh \in {0, 1} : SignedIn(refresh)

\* A redirect for the second login was exchanged and its tokens stored,
\* after a redirect that was not exchanged
C28_Witness ==
    \E t \in Exchanges :
        /\ calls[t].data.latest = 2
        /\ oktaAuth.callbacks = 2
        /\ Len(calls) = 1
        /\ IsDone(calls[t])
        /\ calls[t].result.success
        /\ session.access_token = idp.issued
        /\ session.user_info = idp.issued

----------------------------------------------------------------------------
(* Submission                                                              *)

\* The calls of handleFormMapping
FormMappings == {t \in DOMAIN calls : calls[t].op = "handleFormMapping"}

\* The calls of handleFormMapping that returned after isAuthenticated said no
Unauthenticated == {t \in FormMappings : IsDone(calls[t]) /\ ~calls[t].authenticated}

\* C29: a FORM_MAPPING or SEND_EXTRACTION request of a user who is not
\* authenticated fails with success = false and status 'Authentication
\* required', writes neither the extraction history nor lastExtractionTime
\* and sends no API request
C29_UnauthenticatedSendRefused ==
    /\ \A t \in Unauthenticated :
          /\ calls[t].result = Reply(FALSE, "Authentication required",
                                     "Please sign in to send data")
          /\ calls[t].effects = {}
          /\ calls[t].apiCalls = <<>>
    /\ (FormMappings # {} /\ Unauthenticated = DOMAIN calls)
          => /\ extractionHistory = <<>>
             /\ localStorage.lastExtractionTime = -1
             /\ localStorage.company = 0

\* The popup sent an extraction while nobody was signed in, and the
\* background answered the refusal
C29_Witness ==
    \E t \in Unauthenticated :
        /\ session = EmptySession
        /\ calls[t].data.via = "SEND_EXTRACTION"
        /\ calls[t].data.extraction = 1
        /\ calls[t].pc = "answered"
        /\ ~popup.isSending
        /\ popup.pendingExtraction.extraction = 1

\* The payload is one the main world has posted
Extracted(payload) == payload.extraction \in 1..mainWorld.posts

----------------------------------------------------------------------------
(* Extraction history                                                      *)

\* The step pushed entry onto the history, dropping the oldest of ten
Pushed(entry) ==
    extractionHistory' =
        IF Len(extractionHistory) = HistoryLimit
        THEN Append(Tail(extractionHistory), entry)
        ELSE Append(extractionHistory, entry)

\* C31: the extraction history never holds more than ten entries, every
\* change of it appends one entry and drops the oldest when there were ten
\* already, and GET_LAST_EXTRACTION answers with the entry pushed last, or
\* with null while the history is empty
C31_HistoryOfTen ==
    [][/\ Len(extractionHistory') <= HistoryLimit
       /\ extractionHistory' # extractionHistory
             => \E t \in DOMAIN calls : Pushed(calls[t].data.extraction)
       /\ popup'.getLast.asked
             => popup'.getLast.reply =
                   IF popup'.getLast.history = <<>> THEN 0
                   ELSE popup'.getLast.history[Len(popup'.getLast.history)]]_vars

\* The eleventh extraction was pushed, the oldest dropped, and the popup was
\* answered with the eleventh
C31_Witness ==
    /\ Len(extractionHistory) = HistoryLimit
    /\ extractionHistory[1] = 1 - HistoryLimit
    /\ extractionHistory[HistoryLimit] = 1
    /\ popup.getLast = [asked |-> TRUE, reply |-> 1, history |-> extractionHistory]

----------------------------------------------------------------------------
(* The value of makeRequest                                                *)

\* The calls of validateAuth that have returned what makeRequest resolved
\* to, makeRequest having had a token
Resolved == {t \in DOMAIN calls : /\ calls[t].op = "validateAuth"
                                  /\ IsDone(calls[t])
                                  /\ ~NoTokenObtained(calls[t].apiCalls[1])}

\* The last HTTP response makeRequest received was ok
FinalResponseOk(call) == call.statuses # <<>> /\ LastOf(call.statuses) = 200

\* C32: once a token is available makeRequest resolves to success = true
\* whenever the final HTTP response is ok, from the first attempt or from
\* the retry after a 401, and to success = false with an error otherwise
C32_ApiResponseOnEveryPath ==
    \A t \in Resolved :
        IF FinalResponseOk(calls[t].apiCalls[1])
        THEN calls[t].result.success /\ calls[t].result.error = "none"
        ELSE ~calls[t].result.success /\ calls[t].result.error # "none"

----------------------------------------------------------------------------
(* Properties of the company cache                                         *)

Lookups == {t \in DOMAIN calls : calls[t].op = "lookupCompany"}

\* Lookup u of the URL of lookup t began after t had answered with a company
Repeats(t, u) ==
    /\ t \in calls[u].began.finished
    /\ calls[t].result.success
    /\ calls[t].data.url = calls[u].data.url

\* C33: a lookup of a URL that follows a successful lookup of the same URL
\* within five minutes answers with the same company and sends no request
C33_RepeatedLookupFromCache ==
    \A t, u \in Lookups :
        (Repeats(t, u) /\ IsDone(calls[u]) /\ dateNow <= CACHE_DURATION) =>
            /\ calls[u].result.success
            /\ calls[u].ret = calls[t].ret
            /\ calls[u].apiCalls = <<>>

CacheReads == {r \in UNION {{<<t, i>> : i \in DOMAIN calls[t].cacheReads} : t \in DOMAIN calls} : TRUE}

ReadOf(r) == calls[r[1]].cacheReads[r[2]]

\* C34: CompanyCache.get hands back nothing for an entry older than five
\* minutes and removes it before it returns; an entry that CompanyCache.set
\* stored less than five minutes ago is handed back as it was stored
C34_CacheEntriesExpire ==
    \A r \in CacheReads :
        /\ (ReadOf(r).found /\ ReadOf(r).now - ReadOf(r).cached_at > CACHE_DURATION) =>
               /\ ReadOf(r).returned = 0
               /\ ReadOf(r).removed \/ calls[r[1]].pc = "lookup.cacheRemove"
        /\ (ReadOf(r).found /\ ReadOf(r).wrapped
               /\ ReadOf(r).now - ReadOf(r).cached_at < CACHE_DURATION) =>
               ReadOf(r).returned = ReadOf(r).company

\* A lookup found an entry older than five minutes, removed it and went on
\* to the network
C34_Witness ==
    \E r \in CacheReads :
        /\ ReadOf(r).found /\ ReadOf(r).removed /\ ReadOf(r).returned = 0
        /\ ReadOf(r).now - ReadOf(r).cached_at > CACHE_DURATION
        /\ calls[r[1]].apiCalls # <<>>

----------------------------------------------------------------------------
(* Properties of the company session                                       *)

\* The calls that went through getActiveSession
SessionReaders ==
    {t \in DOMAIN calls : calls[t].op \in {"getActiveSession", "updateActivity",
                                            "isCurrentAgency"}
                             /\ calls[t].sessionReads # <<>>}

TimedOut(read) ==
    /\ read.stored.companyId # 0
    /\ read.now - read.stored.lastActivity > SESSION_TIMEOUT

Live(read) ==
    /\ read.stored.companyId # 0
    /\ read.now - read.stored.lastActivity <= SESSION_TIMEOUT

\* C35: getActiveSession returns no session whose lastActivity lies more
\* than thirty minutes back, and has removed the session when it returns;
\* a younger session is returned as stored. updateActivity stores the
\* session it was given with lastActivity set to the time it was given it
\* and nothing else changed, and stores nothing when it was given none
C35_SessionTimesOut ==
    \A t \in SessionReaders :
        LET read == calls[t].sessionReads[1]
        IN /\ TimedOut(read) =>
                 /\ read.returned = NoCompanySession
                 /\ read.removed \/ calls[t].pc = "session.remove"
           /\ Live(read) => read.returned = read.stored
           /\ (calls[t].op = "updateActivity" /\ IsDone(calls[t])) =>
                 IF Live(read)
                 THEN /\ Len(calls[t].sessionWrites) = 1
                      /\ calls[t].sessionWrites[1].written =
                            [read.stored EXCEPT !.lastActivity = read.now]
                 ELSE calls[t].sessionWrites = <<>>

\* One updateActivity has refreshed a live session, and a later read found
\* a session that had timed out and removed it
C35_Witness ==
    /\ \E t \in SessionReaders :
          /\ calls[t].op = "updateActivity" /\ IsDone(calls[t])
          /\ Live(calls[t].sessionReads[1])
          /\ calls[t].sessionWrites # <<>>
    /\ \E t \in SessionReaders :
          TimedOut(calls[t].sessionReads[1]) /\ calls[t].sessionReads[1].removed

\* C36: while the session that setActiveSession stored for a URL is live,
\* isCurrentAgency(u) is true exactly when u has the agency code of that URL
C36_CurrentAgencyByCode ==
    \A t \in SessionReaders :
        (calls[t].op = "isCurrentAgency" /\ IsDone(calls[t])
            /\ Live(calls[t].sessionReads[1])) =>
            (calls[t].isCurrent <=>
                extractAgencyCode(calls[t].data.url)
                   = extractAgencyCode(calls[t].sessionReads[1].stored.url))

----------------------------------------------------------------------------
(* Properties of withRetry                                                 *)

Retries == {t \in DOMAIN calls : calls[t].op = "withRetry"}

Failures(outcomes) == {k \in DOMAIN outcomes : ~outcomes[k].ok}

\* C37: withRetry calls fn at most maxAttempts times and one call after
\* the other, returns the value of the first call that succeeds and calls
\* fn no more, and after maxAttempts failures rejects with the last error;
\* each failure but the maxAttempts-th is followed by one onRetry(attempt,
\* error) and by a wait of delay * 2^(attempt - 1), or of delay without
\* backoff
C37_WithRetry ==
    \A t \in Retries :
        LET r == calls[t].retry
            pending == IF calls[t].pc = "retry.fn" THEN 1 ELSE 0
            retried == {k \in Failures(r.outcomes) : k < r.maxAttempts}
        IN /\ Len(r.outcomes) + pending <= r.maxAttempts
           /\ \A k \in DOMAIN r.outcomes : r.outcomes[k].ok => k = Len(r.outcomes)
           /\ IsDone(calls[t]) <=>
                 \/ Failures(r.outcomes) # DOMAIN r.outcomes
                 \/ Len(r.outcomes) = r.maxAttempts
           /\ (IsDone(calls[t]) /\ Failures(r.outcomes) # DOMAIN r.outcomes) =>
                 r.value = r.outcomes[Len(r.outcomes)].value /\ r.rejected = 0
           /\ (IsDone(calls[t]) /\ Failures(r.outcomes) = DOMAIN r.outcomes) =>
                 r.rejected = r.outcomes[r.maxAttempts].value /\ r.value = 0
           /\ r.waits = [k \in retried |->
                            IF r.backoff THEN r.delay * 2 ^ (k - 1) ELSE r.delay]
           /\ r.onRetryCalls =
                 IF r.onRetry
                 THEN [k \in retried |-> [attempt |-> k, error |-> r.outcomes[k].value]]
                 ELSE <<>>

\* A call with backoff and onRetry failed maxAttempts times, at least
\* three, and was rejected after two waits
C37_Witness ==
    \E t \in Retries :
        /\ IsDone(calls[t])
        /\ calls[t].retry.backoff /\ calls[t].retry.onRetry
        /\ calls[t].retry.maxAttempts >= 3
        /\ calls[t].retry.rejected # 0
        /\ Len(calls[t].retry.waits) >= 2

----------------------------------------------------------------------------
(* Properties of the MAIN-world script                                     *)

Finished(run) == ~run.polling

\* What a run has done is what the claim allows: nothing posted while it
\* polls below the fifth check, and one message, no further check and a
\* listener only after IMAGETREND_DETECTED once it has stopped
RunInOrder(run) ==
    /\ run.count <= CheckMax
    /\ Len(run.posted) <= 1
    /\ run.polling => run.posted = <<>> /\ run.installed = 0
    /\ Finished(run) =>
          /\ Len(run.posted) = 1
          /\ run.count >= 1
          /\ run.installed = IF run.posted[1] = "IMAGETREND_DETECTED" THEN 1 ELSE 0

\* C38: every run of checkForImageTrend comes to post one of
\* IMAGETREND_DETECTED and IMAGETREND_NOT_FOUND, after five checks at most,
\* never posts a second message or checks again, and installs the
\* EXTRACT_MAPPING listener only when it posts IMAGETREND_DETECTED
C38_OneDetectionMessagePerRun ==
    /\ [](\A i \in DOMAIN mainWorld.runs : RunInOrder(mainWorld.runs[i]))
    /\ \A i \in 1..MaxInjections :
          (i \in DOMAIN mainWorld.runs) ~>
             (i \in DOMAIN mainWorld.runs /\ Finished(mainWorld.runs[i]))

\* One run has ended with IMAGETREND_NOT_FOUND after five checks and
\* another with IMAGETREND_DETECTED
C38_Witness ==
    /\ \E i \in DOMAIN mainWorld.runs :
          /\ Finished(mainWorld.runs[i])
          /\ mainWorld.runs[i].posted = <<"IMAGETREND_NOT_FOUND">>
          /\ mainWorld.runs[i].count = CheckMax
    /\ \E i \in DOMAIN mainWorld.runs :
          /\ Finished(mainWorld.runs[i])
          /\ mainWorld.runs[i].posted = <<"IMAGETREND_DETECTED">>

\* C39: an EXTRACT_MAPPING request that has been dispatched has run one
\* extraction and has been answered by one IMAGETREND_DATA or
\* IMAGETREND_ERROR, however often the script was injected
C39_OneExtractionPerRequest ==
    \A q \in DOMAIN mainWorld.extractRequests :
        mainWorld.extractRequests[q].delivered =>
            /\ mainWorld.extractRequests[q].extractions = 1
            /\ Len(mainWorld.extractRequests[q].posts) = 1

====
